---- MODULE Spec2Model ----
(***************************************************************************)
(* The status-gated command panels of foxglove-studio (husarion fork):     *)
(* ToggleSrvButton (ToggleSrvButton.tsx) and EStop (EStop.tsx).            *)
(*                                                                         *)
(* One panel instance is modelled.  `panel` says which of the two it is    *)
(* and `hasCallService` whether the host context offers callService; both  *)
(* are fixed when the panel is constructed.                                *)
(*                                                                         *)
(* JavaScript values are modelled as strings: "undefined", "true",         *)
(* "false", "7" (a number).  Optional objects (a message, a parsed path, a *)
(* response) are records whose sentinel value stands for `undefined`.      *)
(***************************************************************************)
EXTENDS Integers, Sequences, FiniteSets, TLC

VARIABLES
    panel,           \* "ToggleSrvButton" or "EStop"
    hasCallService,  \* context.callService != undefined
    config,          \* useState(config)
    state,           \* useReducer(reducer, ...): the path evaluator
    buttonAction,    \* useState: buttonAction (toggle) / eStopAction (e-stop)
    srvState,        \* useState: srvState
    pending,         \* service calls dispatched to the host and not yet settled
    renderDone,      \* useState: the done function of the last render pass
    awaiting,        \* done functions the host passed and that were not called yet
    subscriptions,   \* the topics the host holds a subscription of the panel on
    onRender,        \* context.onRender: the panel's handler, or undefined
    savedState,      \* the state the host keeps for the panel: context.initialState
                     \* before the mount, the last context.saveState after it
    hasPublish,      \* context.publish != undefined
    speed,           \* Joy: useState(speed), the speed JoyVisual reported last
    halt,            \* Joy: useState(halt)
    currentAction,   \* Teleop: useState(currentAction)
    joyVisual,       \* the state of the JoyVisual component while it is mounted
    timers,          \* the intervals set and not cleared, oldest first
    advertised,      \* the topics the host holds an advertisement of the panel for
    hostCalls,       \* the calls the last event made on the host and the timers
    lastEvent,       \* the event handled last (history)
    probe            \* the evaluator's last step, while it is observed (history)

\* The variables of the publishing panels, Joy and Teleop.
publisherVars == <<hasPublish, speed, halt, currentAction, joyVisual, timers, advertised, hostCalls>>

vars == <<panel, hasCallService, config, state, buttonAction, srvState, pending,
          renderDone, awaiting, subscriptions, onRender, savedState, lastEvent, probe,
          publisherVars>>

-----------------------------------------------------------------------------
(* Bounds *)

\* Longest frame (batch of messages) one render pass delivers to the panel.
MaxFrameLen == 1
\* Longest frame delivered when the path evaluator is exercised on its own.
MaxBatchLen == 2
\* Cap on the calls in flight (the host's queue of unsettled promises).
MaxPending == 2
\* The intervals a step may fire one of.
MaxTimers == 2

-----------------------------------------------------------------------------
(* JavaScript values *)

Undefined == "undefined"

Values == {"true", "false", "7"}

\* typeof v === "boolean"
IsBoolean(v) == v \in {"true", "false"}

\* Boolean(v): JavaScript truthiness
Truthy(v) == v \notin {Undefined, "false", "0", ""}

-----------------------------------------------------------------------------
(* Messages and frames *)

NoMessage == [topic |-> Undefined, x |-> Undefined, arr |-> <<>>]

\* MessageEvent: a topic and a payload with an optional scalar field `x` and an
\* array field `arr`.
Messages ==
    { [topic |-> "/a", x |-> "true",    arr |-> <<>>],
      [topic |-> "/a", x |-> "false",   arr |-> <<>>],
      [topic |-> "/a", x |-> "7",       arr |-> <<>>],
      [topic |-> "/a", x |-> "true",    arr |-> <<"true", "false">>],
      [topic |-> "/a", x |-> Undefined, arr |-> <<"false">>],
      [topic |-> "/b", x |-> "true",    arr |-> <<>>] }

\* The frames of at most n messages.
Frames(n) == UNION { [1..k -> Messages] : k \in 0..n }

\* renderState as the host passes it to onRender: didSeek, and currentFrame
\* when hasCurrentFrame (an absent currentFrame is not an empty one).
RenderStates(n) ==
    { r \in [didSeek : BOOLEAN, hasCurrentFrame : BOOLEAN, currentFrame : Frames(n)] :
        r.hasCurrentFrame \/ r.currentFrame = <<>> }

-----------------------------------------------------------------------------
(* Message paths (library @foxglove/message-path) *)

NoPath == [topicName |-> Undefined, messagePath |-> <<>>]

NamePart(n) == [type |-> "name", name |-> n, value |-> Undefined, start |-> Undefined, end |-> Undefined]
SlicePart(s, e) == [type |-> "slice", name |-> Undefined, value |-> Undefined, start |-> s, end |-> e]
FilterPart(v) == [type |-> "filter", name |-> Undefined, value |-> v, start |-> Undefined, end |-> Undefined]

\* The path strings a user enters in the settings.
Paths == {"", "/a..", "/a.x", "/a.arr[:]", "/a{y==$v}.x", "/b.x"}

\* typeof v === "object": a variable reference in a filter value or slice bound
TypeofObject(v) == v \in {"$v"}

parseMessagePath(path) ==
    CASE path = "/a.x"        -> [topicName |-> "/a", messagePath |-> <<NamePart("x")>>]
      [] path = "/b.x"        -> [topicName |-> "/b", messagePath |-> <<NamePart("x")>>]
      [] path = "/a.arr[:]"   -> [topicName |-> "/a", messagePath |-> <<NamePart("arr"), SlicePart("0", "Infinity")>>]
      [] path = "/a{y==$v}.x" -> [topicName |-> "/a", messagePath |-> <<FilterPart("$v"), NamePart("x")>>]
      [] OTHER                -> NoPath

\* The values the path extracts from one message; none from a message of
\* another topic, and an undefined field yields no item.
simpleGetMessagePathDataItems(message, parsedPath) ==
    IF message.topic # parsedPath.topicName THEN <<>>
    ELSE IF \E i \in DOMAIN parsedPath.messagePath : parsedPath.messagePath[i].type = "filter" THEN <<>>
    ELSE IF \E i \in DOMAIN parsedPath.messagePath : parsedPath.messagePath[i].type = "slice" THEN message.arr
    ELSE IF message.x = Undefined THEN <<>>
    ELSE <<message.x>>

-----------------------------------------------------------------------------
(* The reducer of the path evaluator *)

MultipleResultsError == "Message path produced multiple results"
VariablesUnsupported == "Message paths using variables are not currently supported"

\* Faulty variant of getSingleDataItem: takes the first item of several, silently.
getSingleDataItem_first(results) ==
    [thrown |-> FALSE, value |-> IF Len(results) = 0 THEN Undefined ELSE results[1]]

\* getSingleDataItem: the item, or a throw
getSingleDataItem(results) ==
    IF Len(results) <= 1
    THEN [thrown |-> FALSE, value |-> IF Len(results) = 0 THEN Undefined ELSE results[1]]
    ELSE [thrown |-> TRUE, value |-> Undefined]

\* _.last
last(messages) == IF Len(messages) = 0 THEN NoMessage ELSE messages[Len(messages)]

\* Faulty variant of frameLoopBody: `if (data)` for `if (data != undefined)`.
frameLoopBody_truthy(acc, message, parsedPath) ==
    IF acc.thrown \/ message.topic # parsedPath.topicName THEN acc
    ELSE LET data == getSingleDataItem(simpleGetMessagePathDataItems(message, parsedPath))
         IN  IF data.thrown THEN [acc EXCEPT !.thrown = TRUE]
             ELSE IF Truthy(data.value)
                  THEN [acc EXCEPT !.latestMatchingQueriedData = data.value, !.latestMessage = message]
                  ELSE acc

\* Faulty variant of frameLoopBody: the value is taken, the message is not.
frameLoopBody_keepsMessage(acc, message, parsedPath) ==
    IF acc.thrown \/ message.topic # parsedPath.topicName THEN acc
    ELSE LET data == getSingleDataItem(simpleGetMessagePathDataItems(message, parsedPath))
         IN  IF data.thrown THEN [acc EXCEPT !.thrown = TRUE]
             ELSE IF data.value # Undefined
                  THEN [acc EXCEPT !.latestMatchingQueriedData = data.value]
                  ELSE acc

\* One turn of the frame loop on `message`, from accumulator acc.
frameLoopBody(acc, message, parsedPath) ==
    IF acc.thrown \/ message.topic # parsedPath.topicName THEN acc
    ELSE LET data == getSingleDataItem(simpleGetMessagePathDataItems(message, parsedPath))
         IN  IF data.thrown THEN [acc EXCEPT !.thrown = TRUE]
             ELSE IF data.value # Undefined
                  THEN [acc EXCEPT !.latestMatchingQueriedData = data.value, !.latestMessage = message]
                  ELSE acc

\* Faulty variant of frameLoop: the loop stops after the first message.
frameLoop_firstOnly(acc, messages, parsedPath) ==
    IF messages = <<>> THEN acc ELSE frameLoopBody(acc, Head(messages), parsedPath)

RECURSIVE frameLoop(_, _, _)
frameLoop(acc, messages, parsedPath) ==
    IF messages = <<>> THEN acc
    ELSE frameLoop(frameLoopBody(acc, Head(messages), parsedPath), Tail(messages), parsedPath)

\* Faulty variant of reducerFrame: an error, once recorded, stays.
reducerFrame_keepsError(st, messages) ==
    IF st.pathParseError # Undefined
    THEN [st EXCEPT !.latestMessage = last(messages), !.error = Undefined]
    ELSE LET acc0 == [latestMatchingQueriedData |-> st.latestMatchingQueriedData,
                      latestMessage |-> st.latestMessage, thrown |-> FALSE]
             acc == IF st.parsedPath # NoPath THEN frameLoop(acc0, messages, st.parsedPath) ELSE acc0
         IN  IF acc.thrown
             THEN [st EXCEPT !.latestMatchingQueriedData = Undefined, !.error = MultipleResultsError]
             ELSE [st EXCEPT !.latestMessage = acc.latestMessage,
                             !.latestMatchingQueriedData = acc.latestMatchingQueriedData]

reducerFrame(st, messages) ==
    IF st.pathParseError # Undefined
    THEN [st EXCEPT !.latestMessage = last(messages), !.error = Undefined]
    ELSE LET acc0 == [latestMatchingQueriedData |-> st.latestMatchingQueriedData,
                      latestMessage |-> st.latestMessage, thrown |-> FALSE]
             acc == IF st.parsedPath # NoPath THEN frameLoop(acc0, messages, st.parsedPath) ELSE acc0
         IN  IF acc.thrown
             THEN [st EXCEPT !.latestMatchingQueriedData = Undefined, !.error = MultipleResultsError]
             ELSE [st EXCEPT !.latestMessage = acc.latestMessage,
                             !.latestMatchingQueriedData = acc.latestMatchingQueriedData,
                             !.error = Undefined]

\* Faulty variant of reducerPath: the value waits for the next message.
reducerPath_stale(st, path) ==
    [st EXCEPT !.path = path, !.parsedPath = parseMessagePath(path)]

reducerPath(st, path) ==
    LET newPath == parseMessagePath(path)
        usesVariables ==
            \E i \in DOMAIN newPath.messagePath :
                LET part == newPath.messagePath[i]
                IN  \/ part.type = "filter" /\ TypeofObject(part.value)
                    \/ part.type = "slice" /\ (TypeofObject(part.start) \/ TypeofObject(part.end))
        pathParseError == IF newPath # NoPath /\ usesVariables THEN VariablesUnsupported ELSE Undefined
        item == IF newPath # NoPath /\ pathParseError = Undefined /\ st.latestMessage # NoMessage
                THEN getSingleDataItem(simpleGetMessagePathDataItems(st.latestMessage, newPath))
                ELSE [thrown |-> FALSE, value |-> Undefined]
    IN  [st EXCEPT !.path = path,
                   !.parsedPath = newPath,
                   !.latestMatchingQueriedData = item.value,
                   !.error = IF item.thrown THEN MultipleResultsError ELSE Undefined,
                   !.pathParseError = pathParseError]

\* Faulty variant of reducerSeek: forgets to clear the matching value.
reducerSeek_keepsValue(st) ==
    [st EXCEPT !.latestMessage = NoMessage, !.error = Undefined]

\* Faulty variant of reducerSeek: the seek also drops the parsed path and the
\* parse error.
reducerSeek_resetsPath(st) ==
    [st EXCEPT !.latestMessage = NoMessage,
               !.latestMatchingQueriedData = Undefined,
               !.error = Undefined,
               !.parsedPath = NoPath,
               !.pathParseError = Undefined]

reducerSeek(st) ==
    [st EXCEPT !.latestMessage = NoMessage,
               !.latestMatchingQueriedData = Undefined,
               !.error = Undefined]

FrameAction(messages) == [type |-> "frame", messages |-> messages, path |-> ""]
PathAction(path) == [type |-> "path", messages |-> <<>>, path |-> path]
SeekAction == [type |-> "seek", messages |-> <<>>, path |-> ""]

reducer(st, action) ==
    CASE action.type = "frame" -> reducerFrame(st, action.messages)
      [] action.type = "path"  -> reducerPath(st, action.path)
      [] action.type = "seek"  -> reducerSeek(st)

\* The initial state of useReducer, from the configured path.
initialReducerState(path) ==
    [path |-> path,
     parsedPath |-> parseMessagePath(path),
     latestMessage |-> NoMessage,
     latestMatchingQueriedData |-> Undefined,
     pathParseError |-> Undefined,
     error |-> Undefined]

-----------------------------------------------------------------------------
(* Configuration *)

\* A field the panel's Config does not hold, or holds no value for.
Absent == Undefined

defaultConfig(p) ==
    IF p = "ToggleSrvButton"
    THEN [serviceName |-> "", goServiceName |-> Absent, stopServiceName |-> Absent,
          statusTopicName |-> "", reverseLogic |-> Absent]
    ELSE [serviceName |-> Absent, goServiceName |-> "", stopServiceName |-> "",
          statusTopicName |-> "", reverseLogic |-> Absent]

\* The values the settings editor can give each field of a panel.
FieldValues(p) ==
    IF p = "ToggleSrvButton"
    THEN [serviceName |-> {"/set_bool", ""}, goServiceName |-> {}, stopServiceName |-> {},
          statusTopicName |-> Paths, reverseLogic |-> {"true", "false"}]
    ELSE [serviceName |-> {}, goServiceName |-> {"/trigger", ""}, stopServiceName |-> {"/reset", ""},
          statusTopicName |-> Paths, reverseLogic |-> {}]

ConfigFields == {"serviceName", "goServiceName", "stopServiceName", "statusTopicName", "reverseLogic"}

\* context.initialState: a persisted, possibly partial Config.
InitialStates(p) ==
    [serviceName : FieldValues(p).serviceName \cup {Absent},
     goServiceName : FieldValues(p).goServiceName \cup {Absent},
     stopServiceName : FieldValues(p).stopServiceName \cup {Absent},
     statusTopicName : FieldValues(p).statusTopicName \cup {Absent},
     reverseLogic : FieldValues(p).reverseLogic \cup {Absent}]

\* { ...defaultConfig, ...initialState }
mergeConfig(defaults, initialState) ==
    [f \in ConfigFields |-> IF initialState[f] # Absent THEN initialState[f] ELSE defaults[f]]

\* A destructuring default: it applies when the property is undefined.
orDefault(value, default) == IF value = Undefined THEN default ELSE value

\* Joy and Teleop: numbers and booleans are written as the editor shows them.
\* An axis or a button that is missing from the persisted object is the empty
\* object its destructuring default `= {}` stands for.
EmptyAxis == [field |-> Absent, initial |-> Absent, limit |-> Absent]
EmptyButton == [field |-> Absent, value |-> Absent]

DefaultXAxis == [field |-> "linear-x", initial |-> "0.8", limit |-> "1"]
DefaultYAxis == [field |-> "angular-z", initial |-> "0.8", limit |-> "1"]

\* Faulty variant of resolveAxis: a persisted axis replaces the default whole.
resolveAxis_wholeObject(axis, default) ==
    IF axis = EmptyAxis THEN default ELSE axis

\* xAxis: { field = ..., initial = ..., limit = ... } = {}
resolveAxis(axis, default) ==
    [field |-> orDefault(axis.field, default.field),
     initial |-> orDefault(axis.initial, default.initial),
     limit |-> orDefault(axis.limit, default.limit)]

\* upButton: { field = ..., value = ... } = {}
resolveButton(button, default) ==
    [field |-> orDefault(button.field, default.field),
     value |-> orDefault(button.value, default.value)]

\* Joy: useState(() => { const { topic, frameId = "", ... } = partialConfig; ... })
joyConfig(partialConfig) ==
    [topic |-> partialConfig.topic,
     frameId |-> orDefault(partialConfig.frameId, ""),
     publishRate |-> orDefault(partialConfig.publishRate, "5"),
     stamped |-> orDefault(partialConfig.stamped, "false"),
     advanced |-> orDefault(partialConfig.advanced, "false"),
     xAxis |-> resolveAxis(partialConfig.xAxis, DefaultXAxis),
     yAxis |-> resolveAxis(partialConfig.yAxis, DefaultYAxis)]

DefaultButtons ==
    [upButton |-> [field |-> "linear-x", value |-> "1"],
     downButton |-> [field |-> "linear-x", value |-> "-1"],
     leftButton |-> [field |-> "angular-z", value |-> "1"],
     rightButton |-> [field |-> "angular-z", value |-> "-1"]]

\* Teleop: useState(() => { const { topic, publishRate = 5, ... } = partialConfig; ... })
teleopConfig(partialConfig) ==
    [topic |-> partialConfig.topic,
     publishRate |-> orDefault(partialConfig.publishRate, "5"),
     stamped |-> orDefault(partialConfig.stamped, "false"),
     upButton |-> resolveButton(partialConfig.upButton, DefaultButtons.upButton),
     downButton |-> resolveButton(partialConfig.downButton, DefaultButtons.downButton),
     leftButton |-> resolveButton(partialConfig.leftButton, DefaultButtons.leftButton),
     rightButton |-> resolveButton(partialConfig.rightButton, DefaultButtons.rightButton)]

\* context.initialState of Joy and of Teleop: persisted, possibly partial.
PartialAxes == [field : {Absent, "linear-y"}, initial : {Absent, "0.5"}, limit : {Absent, "2"}]
PartialButtons == [field : {Absent, "linear-y"}, value : {Absent, "2"}]

JoyInitialStates ==
    [topic : {Absent, "/cmd_vel"}, frameId : {Absent, "base_link"}, publishRate : {Absent, "10"},
     stamped : {Absent, "true"}, advanced : {Absent, "true"},
     xAxis : PartialAxes, yAxis : PartialAxes]

TeleopInitialStates ==
    [topic : {Absent, "/cmd_vel"}, publishRate : {Absent, "10"}, stamped : {Absent, "true"},
     upButton : PartialButtons, downButton : PartialButtons,
     leftButton : PartialButtons, rightButton : PartialButtons]

\* The config a panel's useState(config) initialiser resolves.
loadConfig(p, initialState) ==
    CASE p = "Joy" -> joyConfig(initialState)
      [] p = "Teleop" -> teleopConfig(initialState)
      [] OTHER -> mergeConfig(defaultConfig(p), initialState)

\* settingsActionReducer: _.set(draft, path.slice(1), value) on an update
settingsActionReducer(prevConfig, action) ==
    IF action.action = "update"
    THEN [prevConfig EXCEPT ![action.payload.path[2]] = action.payload.value]
    ELSE prevConfig

UpdateAction(field, value) ==
    [action |-> "update", payload |-> [path |-> <<"general", field>>, value |-> value]]

-----------------------------------------------------------------------------
(* Status derivation: the effects setting buttonAction / eStopAction *)

\* ToggleSrvButton: useEffect on [latestMatchingQueriedData, reverseLogic]
setButtonActionEffect(data, reverseLogic, prev) ==
    IF IsBoolean(data)
    THEN LET isDeactivated == (data = reverseLogic)
         IN  IF isDeactivated THEN "deactivated" ELSE "activated"
    ELSE prev

\* EStop: useEffect on [latestMatchingQueriedData]
setEStopActionEffect(data, prev) ==
    IF data # Undefined
    THEN IF Truthy(data) THEN "go" ELSE "stop"
    ELSE prev

\* The status after the render that follows a change of the evaluator or config.
statusEffect(p, st, cfg, prev) ==
    IF p = "ToggleSrvButton"
    THEN setButtonActionEffect(st.latestMatchingQueriedData, cfg.reverseLogic, prev)
    ELSE setEStopActionEffect(st.latestMatchingQueriedData, prev)

-----------------------------------------------------------------------------
(* The command gate *)

NoResponse == [success |-> Undefined, message |-> ""]
NoSrvState == [status |-> Undefined, response |-> NoResponse]

\* What the host may answer.
Responses == { [success |-> "true", message |-> ""], [success |-> "false", message |-> "reason"] }

\* Faulty variant of canToggleSrvButton: no check of the request in flight.
canToggleSrvButton_noRequestCheck ==
    /\ hasCallService
    /\ config.serviceName # ""
    /\ config.statusTopicName # ""
    /\ buttonAction # Undefined

canToggleSrvButton ==
    /\ hasCallService
    /\ config.serviceName # ""
    /\ config.statusTopicName # ""
    /\ buttonAction # Undefined
    /\ srvState.status # "requesting"

canEStop ==
    /\ hasCallService
    /\ config.goServiceName # ""
    /\ config.stopServiceName # ""
    /\ buttonAction # Undefined
    /\ srvState.status # "requesting"

\* The button's `disabled` attribute, negated.
buttonEnabled == IF panel = "ToggleSrvButton" THEN canToggleSrvButton ELSE canEStop

ConnectMessage == "Connect to a data source that supports calling services"
ConfigureMessage == "Configure a service in the panel settings"

\* The status line under the button; Undefined when none is shown.
statusMessage ==
    IF ~hasCallService THEN ConnectMessage
    ELSE IF panel = "ToggleSrvButton"
         THEN IF config.serviceName = "" THEN ConfigureMessage ELSE Undefined
         ELSE IF config.goServiceName = "" \/ config.stopServiceName = ""
              THEN ConfigureMessage ELSE Undefined

\* Faulty variant of notificationDetails: no notification is ever shown.
notificationDetails_none == Undefined

\* The notification shown while srvState.response.success === false
notificationDetails ==
    IF srvState.response.success = "false" THEN srvState.response.message ELSE Undefined

\* Faulty variant of toggleSrvButtonClicked: no check of the capability.
toggleSrvButtonClicked_noCapabilityCheck ==
    IF buttonAction # Undefined
    THEN /\ srvState' = [status |-> "requesting", response |-> NoResponse]
         /\ pending' = Append(pending,
               [service |-> config.serviceName,
                request |-> IF buttonAction = "activated" THEN "{data: false}" ELSE "{data: true}"])
    ELSE UNCHANGED <<srvState, pending>>

\* Faulty variant of toggleSrvButtonClicked: requests the state it already has.
toggleSrvButtonClicked_echo ==
    IF ~hasCallService
    THEN /\ srvState' = [status |-> "error", response |-> NoResponse]
         /\ pending' = pending
    ELSE IF buttonAction # Undefined
         THEN /\ srvState' = [status |-> "requesting", response |-> NoResponse]
              /\ pending' = Append(pending,
                    [service |-> config.serviceName,
                     request |-> IF buttonAction = "activated" THEN "{data: true}" ELSE "{data: false}"])
         ELSE UNCHANGED <<srvState, pending>>

toggleSrvButtonClicked ==
    IF ~hasCallService
    THEN /\ srvState' = [status |-> "error", response |-> NoResponse]
         /\ pending' = pending
    ELSE IF buttonAction # Undefined
         THEN /\ srvState' = [status |-> "requesting", response |-> NoResponse]
              /\ pending' = Append(pending,
                    [service |-> config.serviceName,
                     request |-> IF buttonAction = "activated" THEN "{data: false}" ELSE "{data: true}"])
         ELSE UNCHANGED <<srvState, pending>>

\* Faulty variant of eStopClicked: calls the stop service whatever the status.
eStopClicked_alwaysStop ==
    IF ~hasCallService \/ config.stopServiceName = ""
    THEN /\ srvState' = [status |-> "error", response |-> NoResponse]
         /\ pending' = pending
    ELSE /\ srvState' = [status |-> "requesting", response |-> NoResponse]
         /\ pending' = Append(pending, [service |-> config.stopServiceName, request |-> "{}"])

eStopClicked ==
    LET serviceName == IF buttonAction = "go" THEN config.goServiceName ELSE config.stopServiceName
    IN  IF ~hasCallService
        THEN /\ srvState' = [status |-> "error", response |-> NoResponse]
             /\ pending' = pending
        ELSE IF serviceName = ""
             THEN /\ srvState' = [status |-> "error", response |-> NoResponse]
                  /\ pending' = pending
             ELSE /\ srvState' = [status |-> "requesting", response |-> NoResponse]
                  /\ pending' = Append(pending, [service |-> serviceName, request |-> "{}"])

\* Faulty variant of resolvedSrvState: records a success flag for the payload.
resolvedSrvState_flagOnly(response) ==
    [status |-> "success", response |-> [success |-> "true", message |-> ""]]

\* setSrvState({ status: "success", response }) after the await
resolvedSrvState(response) == [status |-> "success", response |-> response]

\* The error the host rejects a call with.
rejection(call) == [message |-> "Service \"" \o call.service \o "\" does not exist"]

-----------------------------------------------------------------------------
(* Render acknowledgment *)

\* The initial value of the renderDone state: () => {}
NoopDone == "noop"
\* A done function the host passed to onRender and that was not called yet.
PassedDone == "passed"
\* A done function that was called.
CalledDone == "called"

\* Faulty variant of renderDoneEffect: the effect does not call the function.
renderDoneEffect_skips(held, outstanding) ==
    [renderDone |-> held, awaiting |-> outstanding]

\* useEffect(() => { renderDone(); }, [renderDone]), run when the held function
\* changed: a passed done function is called, which the host counts.
renderDoneEffect(held, outstanding) ==
    IF held = PassedDone
    THEN [renderDone |-> CalledDone, awaiting |-> outstanding - 1]
    ELSE [renderDone |-> held, awaiting |-> outstanding]

\* The value of context.onRender while the panel is mounted.
RenderHandler == "handler"

\* Faulty variant of onRenderCleanup: the handler stays registered.
onRenderCleanup_keeps == RenderHandler

\* The cleanup of the onRender effect: context.onRender = undefined
onRenderCleanup == Undefined

-----------------------------------------------------------------------------
(* Topic subscription *)

SubscribeCall(topic) == [call |-> "subscribe", topic |-> topic]
UnsubscribeAllCall == [call |-> "unsubscribeAll", topic |-> Undefined]

\* Faulty variant of subscribeEffect: no cleanup of the previous run.
subscribeEffect_noCleanup(oldTopicName, topicName, mount) ==
    IF ~mount /\ oldTopicName = topicName THEN <<>>
    ELSE IF topicName # Undefined THEN <<SubscribeCall(topicName)>> ELSE <<>>

\* useEffect on [context, state.parsedPath?.topicName]: the calls it makes on
\* the context when the topic name went from oldTopicName to topicName (or on
\* mount): the cleanup of the previous run, then the body.
subscribeEffect(oldTopicName, topicName, mount) ==
    IF ~mount /\ oldTopicName = topicName THEN <<>>
    ELSE (IF mount THEN <<>> ELSE <<UnsubscribeAllCall>>)
         \o (IF topicName # Undefined THEN <<SubscribeCall(topicName)>> ELSE <<>>)

\* The cleanup of the subscription effect, as React runs it on unmount.
subscribeCleanup == <<UnsubscribeAllCall>>

\* The host's subscriptions after the panel made `calls` on the context.
RECURSIVE hostApply(_, _)
hostApply(subs, calls) ==
    IF calls = <<>> THEN subs
    ELSE hostApply(IF Head(calls).call = "unsubscribeAll" THEN {} ELSE subs \cup {Head(calls).topic},
                   Tail(calls))

-----------------------------------------------------------------------------
(* The publishing panels: messages, effects and the host's side of them *)

\* A JavaScript number of the configuration, for the one comparison made on it.
toNumber(v) ==
    CASE v = "-1" -> -1
      [] v = "0" -> 0
      [] v = "5" -> 5
      [] v = "10" -> 10

\* speed: { x, y } | undefined and the speeds JoyVisual reports
NoSpeed == [x |-> Undefined, y |-> Undefined]
ZeroSpeed == [x |-> "0", y |-> "0"]
Speeds == {ZeroSpeed, [x |-> "0.5", y |-> "-0.2"]}

\* DirectionalPadAction
DirectionalPadActions == {"UP", "DOWN", "LEFT", "RIGHT"}

\* geometry_msgs/Twist with every component 0, as createMessage builds it
ZeroVector == [x |-> "0", y |-> "0", z |-> "0"]
ZeroTwist == [linear |-> ZeroVector, angular |-> ZeroVector]

TwistType == "geometry_msgs/Twist"
TwistStampedType == "geometry_msgs/TwistStamped"

\* geometryMsgOptions, and field.split("-")
TwistFields == {"linear-x", "linear-y", "linear-z", "angular-x", "angular-y", "angular-z"}

split(field) ==
    CASE field = "linear-x" -> <<"linear", "x">>
      [] field = "linear-y" -> <<"linear", "y">>
      [] field = "linear-z" -> <<"linear", "z">>
      [] field = "angular-x" -> <<"angular", "x">>
      [] field = "angular-y" -> <<"angular", "y">>
      [] field = "angular-z" -> <<"angular", "z">>

\* target[category][direction] = value
setComponent(twist, field, value) ==
    [twist EXCEPT ![split(field)[1]][split(field)[2]] = value]

\* Joy: createMessage (the header's stamp, the time of the call, is left out)
joyCreateMessage(cfg) ==
    IF Truthy(cfg.stamped)
    THEN [header |-> [frame_id |-> cfg.frameId], twist |-> ZeroTwist]
    ELSE ZeroTwist

\* Joy: setTwistValue(message, axis, value)
setTwistValue(cfg, message, axis, value) ==
    IF Truthy(cfg.stamped)
    THEN [message EXCEPT !.twist = setComponent(message.twist, axis.field, value)]
    ELSE setComponent(message, axis.field, value)

\* Joy: the message publishMessage builds
joyMessage(cfg, sp) ==
    setTwistValue(cfg, setTwistValue(cfg, joyCreateMessage(cfg), cfg.xAxis, sp.x), cfg.yAxis, sp.y)

\* Teleop: createMessage
teleopCreateMessage == [header |-> [frame_id |-> "base_link"], twist |-> ZeroTwist]

\* Faulty variant of setFieldValue: the value goes to the same component
\* whatever the field.
setFieldValue_fixedComponent(message, field, value) ==
    [message EXCEPT !.twist = setComponent(message.twist, "linear-x", value)]

\* Teleop: setFieldValue(message, field, value)
setFieldValue(message, field, value) ==
    IF field \in TwistFields
    THEN [message EXCEPT !.twist = setComponent(message.twist, field, value)]
    ELSE message

\* Teleop: the button of the configuration an action stands for
buttonOf(cfg, action) ==
    CASE action = "UP" -> cfg.upButton
      [] action = "DOWN" -> cfg.downButton
      [] action = "LEFT" -> cfg.leftButton
      [] action = "RIGHT" -> cfg.rightButton

\* Teleop: the message publishMessage sends
teleopMessage(cfg, action) ==
    LET message == IF action \in DirectionalPadActions
                   THEN setFieldValue(teleopCreateMessage, buttonOf(cfg, action).field,
                                      buttonOf(cfg, action).value)
                   ELSE teleopCreateMessage
    IN  IF Truthy(cfg.stamped) THEN message ELSE message.twist

\* The calls of a panel on the host context and on the timers.  An interval
\* is known by what its callback publishes.
AdvertiseCall(topic, type) == [op |-> "advertise", topic |-> topic, type |-> type]
UnadvertiseCall(topic) == [op |-> "unadvertise", topic |-> topic]
PublishCall(topic, message) == [op |-> "publish", topic |-> topic, message |-> message]
SetIntervalCall(topic, message) == [op |-> "setInterval", topic |-> topic, message |-> message]
ClearIntervalCall(timer) == [op |-> "clearInterval", topic |-> timer.topic, message |-> timer.message]

\* Faulty variant of advertiseCleanup: the topic is left advertised.
advertiseCleanup_none(cfg) == <<>>

\* The advertise effect: its cleanup, from the render that ran it
advertiseCleanup(cfg) ==
    IF Truthy(cfg.topic) THEN <<UnadvertiseCall(cfg.topic)>> ELSE <<>>

\* Faulty variant of advertiseBody: the type does not follow config.stamped.
advertiseBody_twistOnly(cfg) ==
    IF Truthy(cfg.topic) THEN <<AdvertiseCall(cfg.topic, TwistType)>> ELSE <<>>

\* The advertise effect: its body
advertiseBody(cfg) ==
    IF Truthy(cfg.topic)
    THEN <<AdvertiseCall(cfg.topic, IF Truthy(cfg.stamped) THEN TwistStampedType ELSE TwistType)>>
    ELSE <<>>

\* Faulty variant of publishCleanup: the interval is left running.
publishCleanup_none(tms) == <<>>

\* The cleanup of the publish effect: clearInterval(intervalHandle), when the
\* run before set an interval
publishCleanup(tms) ==
    IF tms = <<>> THEN <<>> ELSE <<ClearIntervalCall(tms[Len(tms)])>>

\* Faulty variant of joyPublishBody: a stop is published like any speed.
joyPublishBody_noHalt(cfg, sp, hlt) ==
    IF sp = NoSpeed \/ ~Truthy(cfg.topic) \/ toNumber(cfg.publishRate) <= 0
    THEN [calls |-> <<>>, halt |-> hlt]
    ELSE [calls |-> <<PublishCall(cfg.topic, joyMessage(cfg, sp)),
                      SetIntervalCall(cfg.topic, joyMessage(cfg, sp))>>,
          halt |-> hlt]

\* Faulty variant of joyPublishBody: the rate is not looked at.
joyPublishBody_anyRate(cfg, sp, hlt) ==
    IF sp = NoSpeed \/ ~Truthy(cfg.topic)
    THEN [calls |-> <<>>, halt |-> hlt]
    ELSE IF sp = ZeroSpeed /\ hlt
    THEN [calls |-> <<>>, halt |-> hlt]
    ELSE [calls |-> <<PublishCall(cfg.topic, joyMessage(cfg, sp)),
                      SetIntervalCall(cfg.topic, joyMessage(cfg, sp))>>,
          halt |-> (sp = ZeroSpeed)]

\* Joy: the body of the publish effect, with the value it sets halt to
joyPublishBody(cfg, sp, hlt) ==
    IF sp = NoSpeed \/ ~Truthy(cfg.topic) \/ toNumber(cfg.publishRate) <= 0
    THEN [calls |-> <<>>, halt |-> hlt]
    ELSE LET isStoped == sp.x = "0" /\ sp.y = "0"
         IN  IF isStoped /\ hlt
             THEN [calls |-> <<>>, halt |-> hlt]
             ELSE [calls |-> <<PublishCall(cfg.topic, joyMessage(cfg, sp)),
                               SetIntervalCall(cfg.topic, joyMessage(cfg, sp))>>,
                   halt |-> isStoped]

\* Teleop: the body of the publish effect
teleopPublishBody(cfg, action) ==
    IF action = Undefined \/ ~Truthy(cfg.topic) THEN <<>>
    ELSE IF toNumber(cfg.publishRate) > 0
    THEN <<PublishCall(cfg.topic, teleopMessage(cfg, action)),
           SetIntervalCall(cfg.topic, teleopMessage(cfg, action))>>
    ELSE <<>>

\* The intervals that run after the calls: setInterval adds one,
\* clearInterval stops the one it names.
RECURSIVE withoutTimer(_, _)
withoutTimer(tms, call) ==
    IF tms = <<>> THEN <<>>
    ELSE IF Head(tms).topic = call.topic /\ Head(tms).message = call.message THEN Tail(tms)
    ELSE <<Head(tms)>> \o withoutTimer(Tail(tms), call)

RECURSIVE timersAfter(_, _)
timersAfter(tms, cs) ==
    IF cs = <<>> THEN tms
    ELSE LET call == Head(cs)
         IN  timersAfter(CASE call.op = "setInterval" ->
                                  Append(tms, [topic |-> call.topic, message |-> call.message])
                           [] call.op = "clearInterval" -> withoutTimer(tms, call)
                           [] OTHER -> tms,
                         Tail(cs))

\* The host's advertisements after the calls: advertise records the topic
\* with its type, unadvertise drops the topic.
RECURSIVE advertisedAfter(_, _)
advertisedAfter(adv, cs) ==
    IF cs = <<>> THEN adv
    ELSE LET call == Head(cs)
         IN  advertisedAfter(CASE call.op = "advertise" ->
                                      { a \in adv : a.topic # call.topic }
                                          \cup {[topic |-> call.topic, type |-> call.type]}
                               [] call.op = "unadvertise" -> { a \in adv : a.topic # call.topic }
                               [] OTHER -> adv,
                             Tail(cs))

\* The layout effects of a render of Joy or Teleop that follows a change of
\* config, speed or action: React runs the cleanups of the effects whose
\* dependencies changed, then their bodies, in the order of the hooks.  In Joy
\* a body that changed halt causes one more render, before any timer can fire.
publisherEffects(p, oldCfg, cfg, sp, hlt, action, tms) ==
    LET advertiseRuns == oldCfg.topic # cfg.topic \/ oldCfg.stamped # cfg.stamped
        cleanups == (IF advertiseRuns THEN advertiseCleanup(oldCfg) ELSE <<>>) \o publishCleanup(tms)
        body == IF p = "Joy" THEN joyPublishBody(cfg, sp, hlt)
                ELSE [calls |-> teleopPublishBody(cfg, action), halt |-> hlt]
        first == cleanups \o (IF advertiseRuns THEN advertiseBody(cfg) ELSE <<>>) \o body.calls
        second == IF body.halt # hlt
                  THEN publishCleanup(timersAfter(tms, first)) \o joyPublishBody(cfg, sp, body.halt).calls
                  ELSE <<>>
    IN  [calls |-> first \o second, halt |-> body.halt]

\* The calls that reach the host: without context.publish the optional calls
\* advertise?.(), unadvertise?.() and publish?.() are not made.
reaching(supported, cs) ==
    LET made(call) == supported \/ call.op \in {"setInterval", "clearInterval"}
    IN  SelectSeq(cs, made)

\* canPublish && hasTopic: JoyVisual or DirectionalPad is rendered
enabled(supported, cfg) ==
    supported /\ toNumber(cfg.publishRate) > 0 /\ Truthy(cfg.topic)

\* The state of JoyVisual: unmounted, and as its useState calls initialise it
NoJoyVisual == [mounted |-> FALSE, speed |-> NoSpeed, startPos |-> Undefined, isDragging |-> FALSE]
MountedJoyVisual == [mounted |-> TRUE, speed |-> NoSpeed, startPos |-> Undefined, isDragging |-> FALSE]

\* JoyVisual after a render of Joy: kept while it stays rendered, created
\* anew when it is rendered again
joyVisualAfter(p, supported, cfg, jv) ==
    IF p = "Joy" /\ enabled(supported, cfg)
    THEN (IF jv.mounted THEN jv ELSE MountedJoyVisual)
    ELSE NoJoyVisual

\* Faulty variant of handleStart: any mouse button starts a drag.
handleStart_anyButton(jv, event) ==
    [jv EXCEPT !.isDragging = TRUE, !.startPos = "clientXY"]

\* JoyVisual: handleStart(event)
handleStart(jv, event) ==
    IF event.type = "mousedown" /\ event.button # "0"
    THEN jv
    ELSE [jv EXCEPT !.isDragging = TRUE, !.startPos = "clientXY"]

\* JoyVisual: handleMove(event), with the speed it passes to onSpeedChange
\* (NoSpeed: no call).  The refs are set while the component is mounted and
\* disabled is false whenever Joy renders it.
handleMove(jv, v) ==
    IF ~jv.isDragging \/ jv.startPos = Undefined
    THEN [joyVisual |-> jv, reported |-> NoSpeed]
    ELSE [joyVisual |-> [jv EXCEPT !.speed = v], reported |-> v]

\* JoyVisual: handleEnd(), with the speed it passes to onSpeedChange
handleEnd(jv) ==
    IF jv.speed # NoSpeed \/ jv.isDragging
    THEN [joyVisual |-> [jv EXCEPT !.isDragging = FALSE, !.speed = ZeroSpeed],
          reported |-> ZeroSpeed]
    ELSE [joyVisual |-> jv, reported |-> NoSpeed]

\* Joy and Teleop: settingsActionHandler.  newConfig is a shallow copy of
\* previous, and _.set writes through it: `config` is the new object and
\* `previous` the old one as the call leaves it.
publisherSettingsUpdate(previous, action) ==
    LET path == SubSeq(action.payload.path, 2, Len(action.payload.path))
    IN  IF action.action # "update" THEN [config |-> previous, previous |-> previous]
        ELSE IF Len(path) = 1
        THEN [config |-> [previous EXCEPT ![path[1]] = action.payload.value],
              previous |-> previous]
        ELSE [config |-> [previous EXCEPT ![path[1]][path[2]] = action.payload.value],
              previous |-> [previous EXCEPT ![path[1]][path[2]] = action.payload.value]]

-----------------------------------------------------------------------------
(* The panel *)

NoRenderState == [didSeek |-> FALSE, hasCurrentFrame |-> FALSE, currentFrame |-> <<>>]

\* No step of the evaluator is under observation.
NoProbe ==
    [kind |-> "none", renderState |-> NoRenderState, path |-> "",
     before |-> initialReducerState(""), beforeEvent |-> "none"]

\* The variables of Joy and Teleop in a panel that is neither.
NoPublisher ==
    /\ hasPublish = FALSE
    /\ speed = NoSpeed
    /\ halt = FALSE
    /\ currentAction = Undefined
    /\ joyVisual = NoJoyVisual
    /\ timers = <<>>
    /\ advertised = {}
    /\ hostCalls = <<>>

Init ==
    /\ panel \in {"ToggleSrvButton", "EStop"}
    /\ hasCallService \in BOOLEAN
    /\ \E initialState \in InitialStates(panel) :
          config = mergeConfig(defaultConfig(panel), initialState)
    \* useReducer's initial state, then the layout effect's first path dispatch
    /\ state = reducer(initialReducerState(config.statusTopicName), PathAction(config.statusTopicName))
    /\ buttonAction = Undefined
    /\ srvState = NoSrvState
    /\ pending = <<>>
    \* the done effect of the first render calls the initial no-op function
    /\ renderDone = NoopDone
    /\ awaiting = 0
    \* the subscription effect of the first render
    /\ subscriptions = hostApply({}, subscribeEffect(Undefined, state.parsedPath.topicName, TRUE))
    \* the effect of the first render assigns context.onRender
    /\ onRender = RenderHandler
    \* the effect of the first render: context.saveState(config)
    /\ savedState = config
    /\ NoPublisher
    /\ lastEvent = "mount"
    /\ probe = NoProbe

\* Faulty variant of onRenderDispatches: the frame is dispatched before the seek.
onRenderDispatches_frameFirst(st, renderState) ==
    LET framed == IF renderState.hasCurrentFrame
                  THEN reducer(st, FrameAction(renderState.currentFrame))
                  ELSE st
    IN  IF renderState.didSeek THEN reducer(framed, SeekAction) ELSE framed

\* The dispatches of the render handler, in its order: the seek when
\* renderState.didSeek === true, then the frame when there is a currentFrame.
onRenderDispatches(st, renderState) ==
    LET seeked == IF renderState.didSeek THEN reducer(st, SeekAction) ELSE st
    IN  IF renderState.hasCurrentFrame
        THEN reducer(seeked, FrameAction(renderState.currentFrame))
        ELSE seeked

\* context.onRender(renderState, done), and the render and effects it causes
OnRender(renderState) ==
    LET framed == onRenderDispatches(state, renderState)
    IN  /\ state' = framed
        /\ buttonAction' = statusEffect(panel, framed, config, buttonAction)
        \* setRenderDone(() => done), and the effect that calls it after the render
        /\ renderDone' = renderDoneEffect(PassedDone, awaiting + 1).renderDone
        /\ awaiting' = renderDoneEffect(PassedDone, awaiting + 1).awaiting
        /\ subscriptions' = hostApply(subscriptions,
              subscribeEffect(state.parsedPath.topicName, framed.parsedPath.topicName, FALSE))
        /\ lastEvent' = CASE renderState.didSeek /\ renderState.hasCurrentFrame -> "seek+frame"
                          [] renderState.didSeek -> "seek"
                          [] renderState.hasCurrentFrame -> "frame"
                          [] OTHER -> "render"
        /\ UNCHANGED <<panel, hasCallService, config, srvState, pending, onRender, savedState, publisherVars>>

\* settingsActionHandler(action): the config update, the path dispatch of the
\* layout effect when statusTopicName changed, and the status effect
SettingsAction(action) ==
    LET newConfig == settingsActionReducer(config, action)
        newState == IF newConfig.statusTopicName # config.statusTopicName
                    THEN reducer(state, PathAction(newConfig.statusTopicName))
                    ELSE state
    IN  /\ action.payload.value \in FieldValues(panel)[action.payload.path[2]]
        /\ newConfig # config
        /\ config' = newConfig
        /\ state' = newState
        /\ buttonAction' = statusEffect(panel, newState, newConfig, buttonAction)
        /\ subscriptions' = hostApply(subscriptions,
              subscribeEffect(state.parsedPath.topicName, newState.parsedPath.topicName, FALSE))
        \* the effect on config: context.saveState(config)
        /\ savedState' = newConfig
        /\ lastEvent' = "settings"
        /\ UNCHANGED publisherVars
        /\ UNCHANGED <<panel, hasCallService, srvState, pending, renderDone, awaiting, onRender>>

\* The user clicks the button; a disabled button delivers no click.
ClickButton ==
    IF buttonEnabled
    THEN /\ Len(pending) < MaxPending
         /\ IF panel = "ToggleSrvButton" THEN toggleSrvButtonClicked ELSE eStopClicked
         /\ lastEvent' = "click"
         /\ UNCHANGED <<panel, hasCallService, config, state, buttonAction>>
         /\ UNCHANGED <<renderDone, awaiting, subscriptions, onRender, savedState, publisherVars>>
    ELSE /\ lastEvent' = "click refused"
         /\ UNCHANGED <<panel, hasCallService, config, state, buttonAction, srvState, pending>>
         /\ UNCHANGED <<renderDone, awaiting, subscriptions, onRender, savedState, publisherVars>>

\* The awaited call resolves: setSrvState({ status: "success", response })
CallResolves(i, response) ==
    /\ i \in DOMAIN pending
    /\ pending' = SubSeq(pending, 1, i - 1) \o SubSeq(pending, i + 1, Len(pending))
    /\ srvState' = resolvedSrvState(response)
    /\ lastEvent' = "call resolved"
    /\ UNCHANGED <<panel, hasCallService, config, state, buttonAction>>
    /\ UNCHANGED <<renderDone, awaiting, subscriptions, onRender, savedState, publisherVars>>

\* Faulty variant of CallRejects: the rejected call is issued again.
CallRejects_retries(i) ==
    /\ i \in DOMAIN pending
    /\ pending' = Append(SubSeq(pending, 1, i - 1) \o SubSeq(pending, i + 1, Len(pending)), pending[i])
    /\ lastEvent' = "call rejected"
    /\ UNCHANGED <<panel, hasCallService, config, state, buttonAction, srvState>>
    /\ UNCHANGED <<renderDone, awaiting, subscriptions, onRender, savedState, publisherVars>>

\* The awaited call rejects: the handler has no catch, the rejection is unhandled
CallRejects(i) ==
    /\ i \in DOMAIN pending
    /\ pending' = SubSeq(pending, 1, i - 1) \o SubSeq(pending, i + 1, Len(pending))
    /\ lastEvent' = "call rejected"
    /\ UNCHANGED <<panel, hasCallService, config, state, buttonAction, srvState>>
    /\ UNCHANGED <<renderDone, awaiting, subscriptions, onRender, savedState, publisherVars>>

\* Faulty variant of CloseNotification: the dismissal keeps the request state.
CloseNotification_keeps ==
    /\ notificationDetails # Undefined
    /\ lastEvent' = "notification closed"
    /\ UNCHANGED <<panel, hasCallService, config, state, buttonAction, srvState, pending>>
    /\ UNCHANGED <<renderDone, awaiting, subscriptions, onRender, savedState, publisherVars>>

\* handleRequestCloseNotification, from the notification when it is shown
CloseNotification ==
    /\ notificationDetails # Undefined
    /\ srvState' = NoSrvState
    /\ lastEvent' = "notification closed"
    /\ UNCHANGED <<panel, hasCallService, config, state, buttonAction, pending>>
    /\ UNCHANGED <<renderDone, awaiting, subscriptions, onRender, savedState, publisherVars>>

\* The settings actions the editor can send to a panel.
SettingsActions(p) ==
    { UpdateAction(f, v) : f \in ConfigFields, v \in UNION { FieldValues(p)[g] : g \in ConfigFields } }

Next ==
    \/ \E renderState \in RenderStates(MaxFrameLen) : OnRender(renderState) /\ UNCHANGED probe
    \/ \E action \in SettingsActions(panel) : SettingsAction(action) /\ UNCHANGED probe
    \/ ClickButton /\ UNCHANGED probe
    \/ \E i \in 1..MaxPending : \E response \in Responses : CallResolves(i, response) /\ UNCHANGED probe
    \/ \E i \in 1..MaxPending : CallRejects(i) /\ UNCHANGED probe
    \/ CloseNotification /\ UNCHANGED probe

Spec == Init /\ [][Next]_vars

\* The click handler called as a function, whether or not the button that
\* carries it is enabled, while the host has no call of the panel to settle.
InvokeHandler ==
    /\ pending = <<>>
    /\ IF panel = "ToggleSrvButton" THEN toggleSrvButtonClicked ELSE eStopClicked
    /\ lastEvent' = "handler invoked"
    /\ UNCHANGED <<panel, hasCallService, config, state, buttonAction>>
    /\ UNCHANGED <<renderDone, awaiting, subscriptions, onRender, savedState, publisherVars>>

NextHandler ==
    \/ Next
    \/ InvokeHandler /\ UNCHANGED probe

\* The panel, with its click handler also invoked directly.
SpecHandler == Init /\ [][NextHandler]_vars

\* The path evaluator on its own: a panel whose other settings are the
\* defaults, driven by render passes with longer frames and by path edits.
InitEval ==
    /\ Init
    /\ hasCallService
    /\ \A f \in ConfigFields \ {"statusTopicName"} : config[f] = defaultConfig(panel)[f]

\* A render pass, recorded with the evaluator state it found.
ObservedRender(renderState) ==
    /\ probe = NoProbe
    /\ OnRender(renderState)
    /\ probe' = [kind |-> "render", renderState |-> renderState, path |-> "",
                 before |-> state, beforeEvent |-> lastEvent]

\* A path edit, recorded with the evaluator state it found.
ObservedPathEdit(path) ==
    /\ probe = NoProbe
    /\ SettingsAction(UpdateAction("statusTopicName", path))
    /\ probe' = [kind |-> "path", renderState |-> NoRenderState, path |-> path,
                 before |-> state, beforeEvent |-> lastEvent]

\* The record of the last step is dropped before the next event is handled.
Forget ==
    /\ probe # NoProbe
    /\ probe' = NoProbe
    /\ UNCHANGED <<panel, hasCallService, config, state, buttonAction, srvState, pending, lastEvent>>
    /\ UNCHANGED <<renderDone, awaiting, subscriptions, onRender, savedState, publisherVars>>

NextEval ==
    \/ \E renderState \in RenderStates(MaxBatchLen) : ObservedRender(renderState)
    \/ \E path \in Paths : ObservedPathEdit(path)
    \/ Forget

SpecEval == InitEval /\ [][NextEval]_vars

\* The panels with a status path and a service button, and all the panels that
\* take render passes from the host.
StatusPanels == {"ToggleSrvButton", "EStop"}
RenderedPanels == StatusPanels \cup {"Joy", "Teleop"}

\* The host paces the render passes: it invokes onRender again only once the
\* done function of the pass before was called.
hostMayRender == awaiting = 0

\* A panel just mounted.  Joy and Teleop hold no status path, evaluator or
\* service button: those variables keep their empty values.
InitAck ==
    /\ panel \in RenderedPanels
    /\ hasCallService = TRUE
    /\ config \in IF panel \in StatusPanels
                  THEN { [defaultConfig(panel) EXCEPT !.statusTopicName = path] : path \in Paths }
                  ELSE { [f \in ConfigFields |-> Absent] }
    /\ state = (IF panel \in StatusPanels
                THEN reducer(initialReducerState(config.statusTopicName), PathAction(config.statusTopicName))
                ELSE initialReducerState(""))
    /\ buttonAction = Undefined
    /\ srvState = NoSrvState
    /\ pending = <<>>
    /\ renderDone = NoopDone
    /\ awaiting = 0
    /\ subscriptions = hostApply({}, subscribeEffect(Undefined, state.parsedPath.topicName, TRUE))
    \* the effect of the first render assigns context.onRender
    /\ onRender = RenderHandler
    \* the effect of the first render: context.saveState(config)
    /\ savedState = config
    /\ NoPublisher
    /\ lastEvent = "mount"
    /\ probe = NoProbe

\* context.onRender(renderState, done) on its own: the handler queues the state
\* updates (setRenderDone, and for a status panel the seek and frame
\* dispatches); React renders and runs the effects afterwards.
HostRender(renderState) ==
    LET framed == onRenderDispatches(state, renderState)
    IN  /\ hostMayRender
        /\ panel \in StatusPanels \/ renderState = NoRenderState
        /\ renderDone' = PassedDone
        /\ awaiting' = awaiting + 1
        /\ state' = IF panel \in StatusPanels THEN framed ELSE state
        /\ lastEvent' = "onRender"
        /\ probe' = [kind |-> "render", renderState |-> renderState, path |-> "",
                     before |-> state, beforeEvent |-> lastEvent]
        /\ UNCHANGED <<panel, hasCallService, config, buttonAction, srvState, pending, subscriptions, onRender, savedState, publisherVars>>

\* React renders the queued updates and runs the effects whose dependencies
\* changed: the done effect, and for a status panel the status effect.
Commit ==
    /\ renderDone = PassedDone
    /\ renderDone' = renderDoneEffect(renderDone, awaiting).renderDone
    /\ awaiting' = renderDoneEffect(renderDone, awaiting).awaiting
    /\ buttonAction' = IF panel \in StatusPanels
                       THEN statusEffect(panel, state, config, buttonAction)
                       ELSE buttonAction
    /\ lastEvent' = "commit"
    /\ UNCHANGED <<panel, hasCallService, config, state, srvState, pending, subscriptions, onRender, savedState, probe, publisherVars>>

NextAck ==
    \/ \E renderState \in RenderStates(MaxFrameLen) : HostRender(renderState)
    \/ Commit

\* Render passes and their acknowledgment; React always gets to render an
\* update that is queued.
SpecAck == InitAck /\ [][NextAck]_vars /\ WF_vars(Commit)

\* A panel with the capability and its service names configured.
InitTeardown ==
    /\ Init
    /\ hasCallService
    /\ IF panel = "ToggleSrvButton" THEN config.serviceName # ""
       ELSE config.goServiceName # "" /\ config.stopServiceName # ""

\* ReactDOM.unmountComponentAtNode: React runs the cleanups of the effects.
Unmount ==
    /\ onRender # Undefined
    /\ onRender' = onRenderCleanup
    /\ subscriptions' = hostApply(subscriptions, subscribeCleanup)
    /\ lastEvent' = "unmount"
    /\ UNCHANGED <<panel, hasCallService, config, state, buttonAction, srvState, pending>>
    /\ UNCHANGED <<renderDone, awaiting, savedState, probe, publisherVars>>

\* The host settles a call of a panel that is gone: the setSrvState after the
\* await reaches no mounted component.
SettleAfterUnmount(i) ==
    /\ onRender = Undefined
    /\ i \in DOMAIN pending
    /\ pending' = SubSeq(pending, 1, i - 1) \o SubSeq(pending, i + 1, Len(pending))
    /\ lastEvent' = "call settled after unmount"
    /\ UNCHANGED <<panel, hasCallService, config, state, buttonAction, srvState>>
    /\ UNCHANGED <<renderDone, awaiting, subscriptions, onRender, savedState, probe, publisherVars>>

\* The host invokes context.onRender only while it is set, and an unmounted
\* panel has no button, notification or pending state update.
NextTeardown ==
    \/ \E renderState \in RenderStates(MaxFrameLen) :
          onRender # Undefined /\ OnRender(renderState) /\ UNCHANGED probe
    \/ onRender # Undefined /\ ClickButton /\ UNCHANGED probe
    \/ \E i \in 1..MaxPending : \E response \in Responses :
          onRender # Undefined /\ CallResolves(i, response) /\ UNCHANGED probe
    \/ \E i \in 1..MaxPending : onRender # Undefined /\ CallRejects(i) /\ UNCHANGED probe
    \/ onRender # Undefined /\ CloseNotification /\ UNCHANGED probe
    \/ Unmount
    \/ \E i \in 1..MaxPending : SettleAfterUnmount(i)

\* The life of a panel up to and after its unmount.
SpecTeardown == InitTeardown /\ [][NextTeardown]_vars

\* The host has created the panel with the state it persisted for it; the
\* component has not rendered yet.
InitLoad ==
    /\ panel \in {"ToggleSrvButton", "EStop", "Joy", "Teleop"}
    /\ hasCallService = TRUE
    /\ savedState \in CASE panel = "Joy" -> JoyInitialStates
                        [] panel = "Teleop" -> TeleopInitialStates
                        [] OTHER -> InitialStates(panel)
    /\ config = savedState
    /\ state = initialReducerState("")
    /\ buttonAction = Undefined
    /\ srvState = NoSrvState
    /\ pending = <<>>
    /\ renderDone = NoopDone
    /\ awaiting = 0
    /\ subscriptions = {}
    /\ onRender = Undefined
    /\ hasPublish = (panel \in {"Joy", "Teleop"})
    /\ speed = NoSpeed
    /\ halt = FALSE
    /\ currentAction = Undefined
    /\ joyVisual = NoJoyVisual
    /\ timers = <<>>
    /\ advertised = {}
    /\ hostCalls = <<>>
    /\ lastEvent = "created"
    /\ probe = NoProbe

\* The first render and its effects: useState resolves the config from
\* context.initialState, the effects save it, set context.onRender and, in a
\* status panel, dispatch the path and subscribe; Joy and Teleop advertise
\* their topic.
Mount ==
    LET loaded == loadConfig(panel, savedState)
        mounted == IF panel \in {"ToggleSrvButton", "EStop"}
                   THEN reducer(initialReducerState(loaded.statusTopicName),
                                PathAction(loaded.statusTopicName))
                   ELSE state
    IN  /\ lastEvent = "created"
        /\ config' = loaded
        /\ savedState' = loaded
        /\ state' = mounted
        /\ subscriptions' = IF panel \in {"ToggleSrvButton", "EStop"}
                            THEN hostApply(subscriptions,
                                     subscribeEffect(Undefined, mounted.parsedPath.topicName, TRUE))
                            ELSE subscriptions
        /\ onRender' = RenderHandler
        /\ hostCalls' = IF panel \in {"Joy", "Teleop"}
                        THEN reaching(hasPublish, advertiseBody(loaded))
                        ELSE hostCalls
        /\ advertised' = advertisedAfter(advertised, hostCalls')
        /\ joyVisual' = joyVisualAfter(panel, hasPublish, loaded, joyVisual)
        /\ lastEvent' = "mount"
        /\ UNCHANGED <<panel, hasCallService, buttonAction, srvState, pending, renderDone, awaiting, probe>>
        /\ UNCHANGED <<hasPublish, speed, halt, currentAction, timers>>

\* A panel from its creation to the end of its first render.
SpecLoad == InitLoad /\ [][Mount]_vars

\* The configurations a session of Joy or Teleop starts from: what the panel
\* resolves from a persisted state with or without a topic and a stamped flag.
PublisherInitialConfigs(p) ==
    IF p = "Joy"
    THEN { joyConfig(s) : s \in { t \in JoyInitialStates :
               /\ t.frameId = Absent /\ t.publishRate = Absent /\ t.advanced = Absent
               /\ t.xAxis = EmptyAxis /\ t.yAxis = EmptyAxis } }
    ELSE { teleopConfig(s) : s \in { t \in TeleopInitialStates :
               /\ t.publishRate = Absent
               /\ t.upButton = EmptyButton /\ t.downButton = EmptyButton
               /\ t.leftButton = EmptyButton /\ t.rightButton = EmptyButton } }

\* Joy or Teleop after its first render and the effects of it.
InitPublish ==
    /\ panel \in {"Joy", "Teleop"}
    /\ hasCallService = TRUE
    /\ hasPublish \in BOOLEAN
    /\ config \in PublisherInitialConfigs(panel)
    /\ savedState = config
    /\ state = initialReducerState("")
    /\ buttonAction = Undefined
    /\ srvState = NoSrvState
    /\ pending = <<>>
    /\ renderDone = NoopDone
    /\ awaiting = 0
    /\ subscriptions = {}
    /\ onRender = RenderHandler
    /\ speed = NoSpeed
    /\ halt = FALSE
    /\ currentAction = Undefined
    /\ joyVisual = joyVisualAfter(panel, hasPublish, config, NoJoyVisual)
    /\ timers = <<>>
    \* the advertise effect of the first render
    /\ hostCalls = reaching(hasPublish, advertiseBody(config))
    /\ advertised = advertisedAfter({}, hostCalls)
    /\ lastEvent = "mount"
    /\ probe = NoProbe

\* The variables of the status panels, which Joy and Teleop leave alone.
statusVars == <<panel, hasCallService, state, buttonAction, srvState, pending, subscriptions,
                onRender, hasPublish>>

\* The settings actions the editor sends to Joy and to Teleop, and an action
\* that is no update.
PublisherUpdate(path, value) ==
    [action |-> "update", payload |-> [path |-> path, value |-> value]]

PerformNodeAction ==
    [action |-> "perform-node-action", payload |-> [path |-> <<"general">>, value |-> "id"]]

PublisherSettingsActions(p) ==
    { PublisherUpdate(<<"general", "topic">>, v) : v \in {"", "/cmd_vel", "/cmd2"} }
    \cup { PublisherUpdate(<<"general", "publishRate">>, v) : v \in {"5", "0", "-1"} }
    \cup { PublisherUpdate(<<"general", "stamped">>, v) : v \in {"true", "false"} }
    \cup (IF p = "Joy"
          THEN { PublisherUpdate(<<"general", "xAxis", "field">>, v) : v \in {"linear-x", "linear-y"} }
          ELSE { PublisherUpdate(<<"general", "upButton", "value">>, v) : v \in {"1", "2"} }
               \cup { PublisherUpdate(<<"general", "leftButton", "field">>, v) :
                         v \in {"angular-z", "linear-y"} })
    \cup {PerformNodeAction}

\* A render of Joy or Teleop with the new config, speed and action, and its
\* layout effects; the effect on config saves it.
PublisherCommit(cfg, sp, action) ==
    LET effects == publisherEffects(panel, config, cfg, sp, halt, action, timers)
    IN  /\ config' = cfg
        /\ savedState' = cfg
        /\ speed' = sp
        /\ currentAction' = action
        /\ halt' = effects.halt
        /\ hostCalls' = reaching(hasPublish, effects.calls)
        /\ timers' = timersAfter(timers, hostCalls')
        /\ advertised' = advertisedAfter(advertised, hostCalls')

\* No state of the panel changes: the handler returned at once.
PublisherIdle ==
    /\ hostCalls' = <<>>
    /\ UNCHANGED <<config, savedState, speed, currentAction, halt, timers, advertised>>

\* settingsActionHandler(action), and the render it causes
PublisherSettings(action) ==
    /\ lastEvent # "unmount"
    /\ IF action.action = "update"
       THEN /\ PublisherCommit(publisherSettingsUpdate(config, action).config, speed, currentAction)
            /\ joyVisual' = joyVisualAfter(panel, hasPublish, config', joyVisual)
       ELSE PublisherIdle /\ UNCHANGED joyVisual
    /\ lastEvent' = "settings"
    /\ UNCHANGED <<statusVars, renderDone, awaiting>>

\* JoyVisual: handleStart, on mousedown or touchstart on the handle
HandleStart(event) ==
    /\ lastEvent # "unmount"
    /\ joyVisual.mounted
    /\ joyVisual' = handleStart(joyVisual, event)
    /\ PublisherIdle
    /\ lastEvent' = (CASE event.type = "touchstart" -> "touchstart"
                      [] event.button = "0" -> "mousedown left"
                      [] OTHER -> "mousedown other")
    /\ UNCHANGED <<statusVars, renderDone, awaiting>>

\* JoyVisual: handleMove, on mousemove or touchmove anywhere in the window;
\* v is the speed the pointer's position scales to.  onSpeedChange is Joy's
\* setSpeed.
HandleMove(v) ==
    /\ lastEvent # "unmount"
    /\ joyVisual.mounted
    /\ joyVisual' = handleMove(joyVisual, v).joyVisual
    /\ IF handleMove(joyVisual, v).reported # NoSpeed
       THEN PublisherCommit(config, handleMove(joyVisual, v).reported, currentAction)
       ELSE PublisherIdle
    /\ lastEvent' = "move"
    /\ UNCHANGED <<statusVars, renderDone, awaiting>>

\* JoyVisual: handleEnd, on mouseup or touchend anywhere in the window
HandleEnd ==
    /\ lastEvent # "unmount"
    /\ joyVisual.mounted
    /\ joyVisual' = handleEnd(joyVisual).joyVisual
    /\ IF handleEnd(joyVisual).reported # NoSpeed
       THEN PublisherCommit(config, handleEnd(joyVisual).reported, currentAction)
       ELSE PublisherIdle
    /\ lastEvent' = "end"
    /\ UNCHANGED <<statusVars, renderDone, awaiting>>

\* Teleop: DirectionalPad calls onAction, which is setCurrentAction; a value
\* equal to the current one causes no render
OnAction(action) ==
    /\ lastEvent # "unmount"
    /\ panel = "Teleop"
    /\ enabled(hasPublish, config)
    /\ IF action # currentAction
       THEN PublisherCommit(config, speed, action)
       ELSE PublisherIdle
    /\ lastEvent' = IF action = Undefined THEN "release" ELSE "action"
    /\ UNCHANGED <<statusVars, renderDone, awaiting, joyVisual>>

\* An interval fires: its publishMessage runs
TimerFires(i) ==
    /\ i \in DOMAIN timers
    /\ hostCalls' = reaching(hasPublish, <<PublishCall(timers[i].topic, timers[i].message)>>)
    /\ lastEvent' = "timer"
    /\ UNCHANGED <<statusVars, renderDone, awaiting, joyVisual>>
    /\ UNCHANGED <<config, savedState, speed, currentAction, halt, timers, advertised>>

\* context.onRender(renderState, done) of Joy and Teleop: setTopics,
\* setRenderDone and the done effect; no effect of the publisher depends on them
PublisherRender ==
    /\ lastEvent # "unmount"
    /\ renderDone' = renderDoneEffect(PassedDone, awaiting + 1).renderDone
    /\ awaiting' = renderDoneEffect(PassedDone, awaiting + 1).awaiting
    /\ PublisherIdle
    /\ lastEvent' = "render"
    /\ UNCHANGED <<statusVars, joyVisual>>

\* The panel is unmounted: React runs the cleanups of the layout effects
PublisherUnmount ==
    /\ lastEvent # "unmount"
    /\ hostCalls' = reaching(hasPublish, advertiseCleanup(config) \o publishCleanup(timers))
    /\ timers' = timersAfter(timers, hostCalls')
    /\ advertised' = advertisedAfter(advertised, hostCalls')
    /\ joyVisual' = NoJoyVisual
    /\ lastEvent' = "unmount"
    /\ UNCHANGED <<statusVars, renderDone, awaiting>>
    /\ UNCHANGED <<config, savedState, speed, currentAction, halt>>

\* The events of the pointer on JoyVisual's handle
StartEvents ==
    { [type |-> "mousedown", button |-> "0"], [type |-> "mousedown", button |-> "2"],
      [type |-> "touchstart", button |-> Undefined] }

NextPublish ==
    \/ \E action \in PublisherSettingsActions(panel) : PublisherSettings(action) /\ UNCHANGED probe
    \/ \E event \in StartEvents : HandleStart(event) /\ UNCHANGED probe
    \/ \E v \in Speeds : HandleMove(v) /\ UNCHANGED probe
    \/ HandleEnd /\ UNCHANGED probe
    \/ \E action \in DirectionalPadActions \cup {Undefined} : OnAction(action) /\ UNCHANGED probe
    \/ \E i \in 1..MaxTimers : TimerFires(i) /\ UNCHANGED probe
    \/ PublisherRender /\ UNCHANGED probe
    \/ PublisherUnmount /\ UNCHANGED probe

\* Joy and Teleop: settings, pointer and pad events, timers and the unmount.
SpecPublish == InitPublish /\ [][NextPublish]_vars

\* ToggleSrvButton and EStop: settingsActionHandler with an action that is no
\* update.  produce returns the object it was given, so no render follows.
SettingsNoUpdate(action) ==
    /\ action.action # "update"
    /\ config' = settingsActionReducer(config, action)
    /\ lastEvent' = "settings"
    /\ UNCHANGED publisherVars
    /\ UNCHANGED <<panel, hasCallService, state, buttonAction, srvState, pending>>
    /\ UNCHANGED <<renderDone, awaiting, subscriptions, onRender, savedState>>

\* The config object the handler was given, as the call leaves it: produce
\* works on a draft, the shallow copy of Joy and Teleop shares nested objects.
previousAfter(p, previous, action) ==
    IF p \in {"Joy", "Teleop"} THEN publisherSettingsUpdate(previous, action).previous
    ELSE previous

\* A settings action handled by the panel, recorded with the config it found
\* and with the object that held it.
ObservedSettings(action) ==
    /\ probe = NoProbe
    /\ IF panel \in {"Joy", "Teleop"} THEN PublisherSettings(action)
       ELSE IF action.action = "update" THEN SettingsAction(action)
       ELSE SettingsNoUpdate(action)
    /\ probe' = [kind |-> "settings", action |-> action, before |-> config,
                 previous |-> previousAfter(panel, config, action)]

\* The settings actions a panel can receive, an action that is no update
\* among them.
AllSettingsActions(p) ==
    IF p \in {"Joy", "Teleop"} THEN PublisherSettingsActions(p)
    ELSE SettingsActions(p) \cup {PerformNodeAction}

NextSettings ==
    \/ \E action \in AllSettingsActions(panel) : ObservedSettings(action)
    \/ Forget

\* The settings handlers of the four panels on their own.
SpecSettings == (Init \/ InitPublish) /\ [][NextSettings]_vars

-----------------------------------------------------------------------------
(* Characterisations the properties are stated with *)

\* The observed step was a render pass that carried a frame and no seek.
FrameObserved ==
    probe.kind = "render" /\ ~probe.renderState.didSeek /\ probe.renderState.hasCurrentFrame

\* The value the path resolves message to, when it is on the path's topic and
\* the path yields exactly one defined value from it; Undefined otherwise.
UniqueValue(message, parsedPath) ==
    LET results == simpleGetMessagePathDataItems(message, parsedPath)
    IN  IF message.topic = parsedPath.topicName /\ Len(results) = 1 /\ results[1] # Undefined
        THEN results[1]
        ELSE Undefined

\* The index of the last message of f with a unique value, 0 when there is none.
LastMatchIndex(f, parsedPath) ==
    LET matching == { i \in DOMAIN f : UniqueValue(f[i], parsedPath) # Undefined }
    IN  IF matching = {} THEN 0 ELSE CHOOSE i \in matching : \A j \in matching : j <= i

\* The path yields several values from some message of f on its topic.
Ambiguous(f, parsedPath) ==
    \E i \in DOMAIN f :
        /\ f[i].topic = parsedPath.topicName
        /\ Len(simpleGetMessagePathDataItems(f[i], parsedPath)) >= 2

\* The frame action evaluates the path: it is parsed, without parse error.
Evaluates(st) == st.parsedPath # NoPath /\ st.pathParseError = Undefined

-----------------------------------------------------------------------------
(* Properties *)

\* C1 as stated: for every parsed path and every batch, after the frame action
\* latestMatchingQueriedData is the value of the last message of the batch that
\* the path resolves to exactly one defined value on its topic, and is unchanged
\* when no message matches.
C1_FrameTakesLastUniqueValue ==
    (FrameObserved /\ probe.before.parsedPath # NoPath) =>
        LET f == probe.renderState.currentFrame
            i == LastMatchIndex(f, probe.before.parsedPath)
        IN  state.latestMatchingQueriedData =
                IF i = 0 THEN probe.before.latestMatchingQueriedData
                ELSE UniqueValue(f[i], probe.before.parsedPath)

\* C1 amended: the same, unless some message of the batch on the path's topic
\* yields several values, in which case latestMatchingQueriedData is undefined;
\* with a parse error or no parsed path the frame leaves the value unchanged.
C1_FrameEvaluation ==
    FrameObserved =>
        LET f == probe.renderState.currentFrame
            i == LastMatchIndex(f, probe.before.parsedPath)
        IN  state.latestMatchingQueriedData =
                IF ~Evaluates(probe.before) THEN probe.before.latestMatchingQueriedData
                ELSE IF Ambiguous(f, probe.before.parsedPath) THEN Undefined
                ELSE IF i = 0 THEN probe.before.latestMatchingQueriedData
                ELSE UniqueValue(f[i], probe.before.parsedPath)

\* A frame of two matching messages has been reduced over a held value, and
\* the value of the second one taken.
C1_Witness ==
    /\ FrameObserved
    /\ Len(probe.renderState.currentFrame) = 2
    /\ probe.before.latestMatchingQueriedData = "7"
    /\ UniqueValue(probe.renderState.currentFrame[1], state.parsedPath) = "true"
    /\ UniqueValue(probe.renderState.currentFrame[2], state.parsedPath) = "false"
    /\ state.latestMatchingQueriedData = "false"

\* C2: at most one service call is in flight, and a click on the button while
\* the request state is 'requesting' issues no call and changes no state.
C2_SingleRequestInFlight ==
    /\ [](Len(pending) <= 1)
    /\ [][(srvState.status = "requesting" /\ ClickButton) =>
              UNCHANGED <<config, state, buttonAction, srvState, pending>>]_vars

\* A click was refused while a call was in flight.
C2_Witness ==
    /\ lastEvent = "click refused"
    /\ srvState.status = "requesting"
    /\ Len(pending) = 1
    /\ buttonAction # Undefined

\* C3 as stated: whenever the latest matching value is not a boolean, the
\* derived status is unknown and the button is disabled.
C3_FailClosedStatus ==
    ~IsBoolean(state.latestMatchingQueriedData) =>
        (buttonAction = Undefined /\ ~buttonEnabled)

\* C4 as stated: when the call in flight rejects, the request state becomes
\* failed and the rejection's message is what the panel shows.
C4_RejectionRecorded ==
    [][\A i \in 1..MaxPending :
          CallRejects(i) =>
              /\ srvState'.status = "error"
              /\ notificationDetails' = rejection(pending[i]).message]_vars

\* C5 as stated: after a rejected call the button is invocable again as soon as
\* capability, configuration and a known status are present.
C5_FailedCallDoesNotBlock ==
    ( /\ lastEvent = "call rejected"
      /\ pending = <<>>
      /\ hasCallService
      /\ IF panel = "ToggleSrvButton" THEN config.serviceName # ""
         ELSE config.goServiceName # "" /\ config.stopServiceName # ""
      /\ config.statusTopicName # ""
      /\ buttonAction # Undefined )
    => buttonEnabled

\* C6 as stated: the button is enabled only with the capability, every
\* required service name, a non-empty status path, a defined status and no
\* request in flight.
C6_GatePreconditions ==
    buttonEnabled =>
        /\ hasCallService
        /\ IF panel = "ToggleSrvButton" THEN config.serviceName # ""
           ELSE config.goServiceName # "" /\ config.stopServiceName # ""
        /\ config.statusTopicName # ""
        /\ buttonAction # Undefined
        /\ srvState.status # "requesting"

\* C7 as stated: for a boolean latest value v and reverse-polarity r (unset
\* counting as false) the toggle status is Activated when (r ? !v : v) and
\* Deactivated otherwise; the e-stop status is Go for true and Stop for false.
C7_StatusDerivation ==
    LET v == state.latestMatchingQueriedData = "true"
        r == config.reverseLogic = "true"
    IN  IsBoolean(state.latestMatchingQueriedData) =>
            IF panel = "ToggleSrvButton"
            THEN buttonAction = IF (IF r THEN ~v ELSE v) THEN "activated" ELSE "deactivated"
            ELSE buttonAction = IF v THEN "go" ELSE "stop"

\* C8 as stated: with the latest value a fixed boolean, a change of the
\* reverse-polarity flag flips the toggle status between Activated and
\* Deactivated in the same step.
C8_PolarityChangeFlipsStatus ==
    [][( /\ panel = "ToggleSrvButton"
         /\ IsBoolean(state.latestMatchingQueriedData)
         /\ state'.latestMatchingQueriedData = state.latestMatchingQueriedData
         /\ Truthy(config'.reverseLogic) # Truthy(config.reverseLogic) )
       => ( /\ buttonAction \in {"activated", "deactivated"}
            /\ buttonAction' \in {"activated", "deactivated"}
            /\ buttonAction' # buttonAction )]_vars

\* C9: a seek clears latestMessage, latestMatchingQueriedData and the error,
\* whatever the evaluator held, and the frame that follows is evaluated from
\* the empty state: its result is decided by that frame's messages alone.
C9_SeekClears ==
    /\ lastEvent = "seek" =>
          /\ state.latestMessage = NoMessage
          /\ state.latestMatchingQueriedData = Undefined
          /\ state.error = Undefined
    /\ (FrameObserved /\ probe.beforeEvent = "seek") =>
          LET f == probe.renderState.currentFrame
              i == LastMatchIndex(f, state.parsedPath)
          IN  IF state.pathParseError # Undefined
              THEN /\ state.latestMatchingQueriedData = Undefined
                   /\ state.latestMessage = last(f)
              ELSE IF state.parsedPath = NoPath \/ Ambiguous(f, state.parsedPath)
              THEN /\ state.latestMatchingQueriedData = Undefined
                   /\ state.latestMessage = NoMessage
              ELSE /\ state.latestMatchingQueriedData =
                          IF i = 0 THEN Undefined ELSE UniqueValue(f[i], state.parsedPath)
                   /\ state.latestMessage = IF i = 0 THEN NoMessage ELSE f[i]

\* A seek has cleared an evaluator that held a message, a value or an error.
C9_Witness ==
    /\ probe.kind = "render"
    /\ probe.renderState.didSeek
    /\ ~probe.renderState.hasCurrentFrame
    /\ probe.before.latestMessage # NoMessage
    /\ probe.before.latestMatchingQueriedData # Undefined
    /\ state.latestMatchingQueriedData = Undefined
    /\ state.latestMessage = NoMessage

\* C10: when the evaluated path yields two or more values from a message of
\* the frame on its topic, the frame action records the multiple-results error
\* and leaves latestMatchingQueriedData undefined.
C10_AmbiguousPathRejected ==
    ( /\ probe.kind = "render"
      /\ probe.renderState.hasCurrentFrame
      /\ Evaluates(state)
      /\ Ambiguous(probe.renderState.currentFrame, state.parsedPath) )
    => /\ state.error = MultipleResultsError
       /\ state.latestMatchingQueriedData = Undefined

\* A frame with an ambiguous message has been reduced over a held value.
C10_Witness ==
    /\ FrameObserved
    /\ Ambiguous(probe.renderState.currentFrame, state.parsedPath)
    /\ probe.before.latestMatchingQueriedData = "false"
    /\ state.error = MultipleResultsError
    /\ state.latestMatchingQueriedData = Undefined

\* C11: a path action keeps latestMessage, and in the same step sets
\* latestMatchingQueriedData to what the new path extracts from the retained
\* message: its one value, or undefined when the path does not resolve on it.
C11_PathEditRecomputes ==
    (probe.kind = "path" /\ probe.before.latestMessage # NoMessage) =>
        LET newPath == parseMessagePath(probe.path)
        IN  /\ state.latestMessage = probe.before.latestMessage
            /\ state.parsedPath = newPath
            /\ state.latestMatchingQueriedData =
                   IF state.pathParseError # Undefined THEN Undefined
                   ELSE UniqueValue(probe.before.latestMessage, newPath)

\* A path edit has produced a value from the retained message where the
\* evaluator held none, with no frame in between.
C11_Witness ==
    /\ probe.kind = "path"
    /\ probe.before.latestMessage # NoMessage
    /\ probe.before.latestMatchingQueriedData = Undefined
    /\ state.latestMessage = probe.before.latestMessage
    /\ state.latestMatchingQueriedData = "true"

\* C12: in the e-stop panel an accepted click while the status is Go leaves
\* exactly one call in flight, to the go service and not to the stop service;
\* while the status is Stop, exactly one call to the stop service and not to
\* the go service.  (The click changes neither the status nor the config.)
C12_EStopServiceSelection ==
    (lastEvent = "click" /\ panel = "EStop") =>
        /\ buttonAction \in {"go", "stop"}
        /\ Len(pending) = 1
        /\ buttonAction = "go" =>
              pending[1].service = config.goServiceName /\ pending[1].service # config.stopServiceName
        /\ buttonAction = "stop" =>
              pending[1].service = config.stopServiceName /\ pending[1].service # config.goServiceName

\* The e-stop button was clicked while the status was Go, and the go service called.
C12_Witness ==
    /\ lastEvent = "click"
    /\ panel = "EStop"
    /\ buttonAction = "go"
    /\ pending = <<[service |-> "/trigger", request |-> "{}"]>>

\* C13: in the toggle panel an accepted click puts the request state in
\* 'requesting' and leaves exactly one call in flight, to the configured
\* service, with payload {data: true} when the status is Deactivated and
\* {data: false} when it is Activated.
C13_TogglePayload ==
    (lastEvent = "click" /\ panel = "ToggleSrvButton") =>
        /\ srvState.status = "requesting"
        /\ buttonAction \in {"activated", "deactivated"}
        /\ Len(pending) = 1
        /\ pending[1].service = config.serviceName
        /\ buttonAction = "deactivated" => pending[1].request = "{data: true}"
        /\ buttonAction = "activated" => pending[1].request = "{data: false}"

\* The toggle button was clicked while Deactivated, and {data: true} requested.
C13_Witness ==
    /\ lastEvent = "click"
    /\ panel = "ToggleSrvButton"
    /\ buttonAction = "deactivated"
    /\ srvState.status = "requesting"
    /\ pending = <<[service |-> "/set_bool", request |-> "{data: true}"]>>

GateReady ==
    /\ hasCallService
    /\ IF panel = "ToggleSrvButton" THEN config.serviceName # ""
       ELSE config.goServiceName # "" /\ config.stopServiceName # ""
    /\ config.statusTopicName # ""
    /\ buttonAction # Undefined

\* C15: when the call resolves with {success: false, message: m} the request
\* state is 'success' and the notification shows exactly m; after that, and
\* after the notification is closed, the button is enabled again whenever the
\* other preconditions hold.
C15_DomainFailureNotified ==
    /\ []((lastEvent \in {"call resolved", "notification closed"} /\ GateReady) => buttonEnabled)
    /\ [][\A i \in 1..MaxPending : \A response \in Responses :
              (CallResolves(i, response) /\ response.success = "false") =>
                  /\ srvState'.status = "success"
                  /\ notificationDetails' = response.message]_vars

\* A call has resolved with a failure; its message is shown and the button is
\* enabled.
C15_Witness ==
    /\ lastEvent = "call resolved"
    /\ srvState.status = "success"
    /\ srvState.response.success = "false"
    /\ notificationDetails = "reason"
    /\ buttonEnabled

\* C16: without callService an invocation of the click handler sets the request
\* state to 'error' at once; the request state is never 'requesting' and no call
\* is issued; the button is disabled and the status line shown in every state.
C16_MissingCapability ==
    ~hasCallService =>
        /\ ~buttonEnabled
        /\ statusMessage = ConnectMessage
        /\ srvState.status # "requesting"
        /\ pending = <<>>
        /\ lastEvent = "handler invoked" => srvState = [status |-> "error", response |-> NoResponse]

\* The handler was invoked on a panel without callService.
C16_Witness ==
    /\ ~hasCallService
    /\ lastEvent = "handler invoked"
    /\ srvState.status = "error"
    /\ pending = <<>>
    /\ buttonAction # Undefined

\* C17 as stated: an invocation of the click handler with the capability but
\* with an unknown status or an empty required service name issues no call and
\* leaves the request state unchanged.
C17_HandlerNoOp ==
    [][( /\ InvokeHandler
         /\ hasCallService
         /\ \/ buttonAction = Undefined
            \/ IF panel = "ToggleSrvButton" THEN config.serviceName = ""
               ELSE config.goServiceName = "" \/ config.stopServiceName = "" )
       => UNCHANGED <<srvState, pending>>]_vars

\* C18: a step issues at most one call, and issues one exactly when the request
\* state enters 'requesting', which only an accepted click does; the step in
\* which a call rejects or resolves issues none (no retry), and a refused click
\* issues none and none is issued for it later (nothing queued).
C18_OneCallPerInvocation ==
    [][ /\ Len(pending') <= Len(pending) + 1
        /\ (Len(pending') = Len(pending) + 1)
              <=> (srvState'.status = "requesting" /\ srvState.status # "requesting")
        /\ Len(pending') = Len(pending) + 1 =>
              (lastEvent' = "click" /\ SubSeq(pending', 1, Len(pending)) = pending)
        /\ lastEvent' \in {"call rejected", "call resolved"} => Len(pending') = Len(pending) - 1
        /\ lastEvent' = "click refused" => pending' = pending ]_vars

\* A call was rejected and none is in flight after it.
C18_Witness ==
    /\ lastEvent = "call rejected"
    /\ srvState.status = "requesting"
    /\ pending = <<>>

\* C19: every render pass the host starts is eventually followed by the call
\* of the done function it passed, whether or not the pass carries a frame or a
\* seek, in each of the four panels.
C19_RenderAcknowledged ==
    (awaiting > 0) ~> (awaiting = 0 /\ renderDone = CalledDone)

\* A render pass without frame and without seek has been acknowledged.
C19_Witness ==
    /\ lastEvent = "commit"
    /\ probe.kind = "render"
    /\ probe.renderState = NoRenderState
    /\ renderDone = CalledDone
    /\ awaiting = 0

\* C20: the host holds at most one subscription of the panel, on the topic of
\* the parsed path, and none while the path has no topic; when the topic
\* changes the effect calls unsubscribeAll first and subscribes, to the new
\* topic only, after it.
C20_SubscriptionDiscipline ==
    /\ [](/\ Cardinality(subscriptions) <= 1
          /\ subscriptions = IF state.parsedPath.topicName # Undefined
                             THEN {state.parsedPath.topicName} ELSE {})
    /\ [][state'.parsedPath.topicName # state.parsedPath.topicName =>
              LET calls == subscribeEffect(state.parsedPath.topicName, state'.parsedPath.topicName, FALSE)
              IN  /\ Len(calls) \in {1, 2}
                  /\ calls[1] = UnsubscribeAllCall
                  /\ Len(calls) = 2 => calls[2] = SubscribeCall(state'.parsedPath.topicName)
                  /\ Len(calls) = 1 => state'.parsedPath.topicName = Undefined
                  /\ subscriptions' = hostApply(subscriptions, calls)]_vars

\* The path was edited from topic /a to topic /b, and the subscription moved.
C20_Witness ==
    /\ probe.kind = "path"
    /\ probe.before.parsedPath.topicName = "/a"
    /\ state.parsedPath.topicName = "/b"
    /\ subscriptions = {"/b"}

\* C21: after the unmount the host holds no subscription of the panel and
\* context.onRender is unset, and from then on nothing of the panel changes:
\* no frame, seek or done is processed; the unmount leaves the calls in flight
\* as they are, for the host to settle.
C21_Teardown ==
    /\ [](lastEvent \in {"unmount", "call settled after unmount"} =>
              (onRender = Undefined /\ subscriptions = {}))
    /\ [][ /\ lastEvent' = "unmount" => pending' = pending
          /\ onRender = Undefined =>
                UNCHANGED <<config, state, buttonAction, srvState, renderDone, awaiting,
                            subscriptions, onRender, savedState>> ]_vars

\* A subscribed panel was unmounted with a call in flight.
C21_Witness ==
    /\ lastEvent = "unmount"
    /\ state.parsedPath.topicName = "/a"
    /\ subscriptions = {}
    /\ onRender = Undefined
    /\ Len(pending) = 1

\* The defaults of each panel's Config, field by field; topic has none.
ConfigDefaults(p) ==
    CASE p = "Joy" ->
            [topic |-> Absent, frameId |-> "", publishRate |-> "5", stamped |-> "false",
             advanced |-> "false",
             xAxis |-> [field |-> "linear-x", initial |-> "0.8", limit |-> "1"],
             yAxis |-> [field |-> "angular-z", initial |-> "0.8", limit |-> "1"]]
      [] p = "Teleop" ->
            [topic |-> Absent, publishRate |-> "5", stamped |-> "false",
             upButton |-> [field |-> "linear-x", value |-> "1"],
             downButton |-> [field |-> "linear-x", value |-> "-1"],
             leftButton |-> [field |-> "angular-z", value |-> "1"],
             rightButton |-> [field |-> "angular-z", value |-> "-1"]]
      [] OTHER -> defaultConfig(p)

\* The fields of a Config that hold an object of sub-fields.
NestedFields(p) ==
    CASE p = "Joy" -> {"xAxis", "yAxis"}
      [] p = "Teleop" -> {"upButton", "downButton", "leftButton", "rightButton"}
      [] OTHER -> {}

\* The persisted value where one is present, the default otherwise.
persistedOrDefault(persisted, default) ==
    IF persisted # Absent THEN persisted ELSE default

\* C22: on load, every field of the config has the persisted value where
\* context.initialState holds one and the default otherwise; in Joy and Teleop
\* this holds for each sub-field of an axis or a button on its own.
C22_PartialConfigMerge ==
    [][ lastEvent = "created" =>
          /\ DOMAIN config' = DOMAIN ConfigDefaults(panel)
          /\ \A f \in DOMAIN config' \ NestedFields(panel) :
                config'[f] = persistedOrDefault(savedState[f], ConfigDefaults(panel)[f])
          /\ \A f \in NestedFields(panel) :
                /\ DOMAIN config'[f] = DOMAIN ConfigDefaults(panel)[f]
                /\ \A g \in DOMAIN config'[f] :
                      config'[f][g] = persistedOrDefault(savedState[f][g], ConfigDefaults(panel)[f][g]) ]_vars

\* Joy was loaded from a state that persisted xAxis.limit alone of the x axis.
C22_Witness ==
    /\ lastEvent = "mount" /\ panel = "Joy"
    /\ config.xAxis = [field |-> "linear-x", initial |-> "0.8", limit |-> "2"]
    /\ config.yAxis.field = "linear-y" /\ config.yAxis.limit = "1"

\* The path strings the parser returns no path for, and those whose parsed
\* path refers to a variable in a filter value or a slice bound.
SyntaxErrorPaths == { path \in Paths : parseMessagePath(path) = NoPath }
VariablePaths == {"/a{y==$v}.x"}

\* C23: a path action records a parse error exactly when the string cannot be
\* parsed or its parsed path refers to a variable; for every other string the
\* parse error is cleared and the parsed path is set.
C23_PathErrors ==
    probe.kind = "path" =>
        IF probe.path \in SyntaxErrorPaths \cup VariablePaths
        THEN state.pathParseError # Undefined
        ELSE state.pathParseError = Undefined /\ state.parsedPath = parseMessagePath(probe.path)

\* C24 as stated: while the configured path cannot be parsed or is not
\* supported, the latest matching value is undefined and the derived status is
\* unknown, whatever frames arrive.
C24_InvalidPathFreezesStatus ==
    state.path \in SyntaxErrorPaths \cup VariablePaths =>
        (state.latestMatchingQueriedData = Undefined /\ buttonAction = Undefined)

\* C25: after a frame raised the multiple-results error, the next frame none
\* of whose messages is ambiguous clears the error, and when it holds messages
\* the path resolves to one value, latestMatchingQueriedData is the value of
\* the last of them.
C25_ErrorDoesNotStopFrames ==
    ( /\ FrameObserved
      /\ probe.beforeEvent \in {"frame", "seek+frame"}
      /\ probe.before.error = MultipleResultsError
      /\ ~Ambiguous(probe.renderState.currentFrame, probe.before.parsedPath) )
    => LET f == probe.renderState.currentFrame
           i == LastMatchIndex(f, probe.before.parsedPath)
       IN  /\ state.error = Undefined
           /\ i # 0 => state.latestMatchingQueriedData = UniqueValue(f[i], probe.before.parsedPath)

\* A frame of an unmatched and a uniquely resolving message has followed the
\* frame that raised the error.
C25_Witness ==
    /\ FrameObserved
    /\ probe.beforeEvent = "frame"
    /\ probe.before.error = MultipleResultsError
    /\ probe.before.latestMatchingQueriedData = Undefined
    /\ Len(probe.renderState.currentFrame) = 2
    /\ UniqueValue(probe.renderState.currentFrame[1], state.parsedPath) = Undefined
    /\ UniqueValue(probe.renderState.currentFrame[2], state.parsedPath) = "false"
    /\ state.error = Undefined
    /\ state.latestMatchingQueriedData = "false"

\* C26: when one render pass carries the seek flag and a current frame, the
\* state after the pass is what that frame gives from the empty state: the
\* message, the value and the error are decided by the frame's messages alone.
C26_SeekBeforeFrame ==
    (probe.kind = "render" /\ probe.renderState.didSeek /\ probe.renderState.hasCurrentFrame) =>
        LET f == probe.renderState.currentFrame
            i == LastMatchIndex(f, state.parsedPath)
        IN  IF state.pathParseError # Undefined
            THEN /\ state.latestMatchingQueriedData = Undefined
                 /\ state.latestMessage = last(f)
                 /\ state.error = Undefined
            ELSE IF state.parsedPath # NoPath /\ Ambiguous(f, state.parsedPath)
            THEN /\ state.latestMatchingQueriedData = Undefined
                 /\ state.latestMessage = NoMessage
                 /\ state.error = MultipleResultsError
            ELSE /\ state.latestMatchingQueriedData =
                        IF i = 0 THEN Undefined ELSE UniqueValue(f[i], state.parsedPath)
                 /\ state.latestMessage = IF i = 0 THEN NoMessage ELSE f[i]
                 /\ state.error = Undefined

\* A pass with a seek and a frame has found a value held from before the seek
\* and has left the value its own frame gives.
C26_Witness ==
    /\ probe.kind = "render" /\ probe.renderState.didSeek /\ probe.renderState.hasCurrentFrame
    /\ probe.before.latestMatchingQueriedData = "true"
    /\ probe.before.latestMessage # NoMessage
    /\ Len(probe.renderState.currentFrame) = 2
    /\ state.latestMatchingQueriedData = "7"

\* C27: a seek leaves the path string, the parsed path and the parse error as
\* they were, whatever the evaluator held.
C27_SeekKeepsPath ==
    (probe.kind = "render" /\ probe.renderState.didSeek /\ ~probe.renderState.hasCurrentFrame) =>
        /\ state.path = probe.before.path
        /\ state.parsedPath = probe.before.parsedPath
        /\ state.pathParseError = probe.before.pathParseError

\* A seek has cleared the message of an evaluator that holds a parse error,
\* and the parse error is still there.
C27_Witness ==
    /\ probe.kind = "render" /\ probe.renderState.didSeek /\ ~probe.renderState.hasCurrentFrame
    /\ probe.before.pathParseError = VariablesUnsupported
    /\ probe.before.latestMessage # NoMessage
    /\ state.latestMessage = NoMessage
    /\ state.pathParseError = VariablesUnsupported
    /\ state.parsedPath # NoPath

\* C28: the request state changes only when a click on the enabled button
\* starts a call, when the call in flight completes, or when the user
\* dismisses the notification, which resets it to none; render passes and
\* settings edits leave it as it is, so a recorded result stays until then.
C28_RequestStateChanges ==
    [][ /\ srvState' # srvState =>
              \/ lastEvent' = "click" /\ buttonEnabled /\ srvState'.status = "requesting"
              \/ lastEvent' = "call resolved" /\ pending # <<>> /\ pending' = <<>>
              \/ lastEvent' = "notification closed"
        /\ lastEvent' = "notification closed" => srvState' = NoSrvState
        /\ lastEvent' \in {"frame", "seek", "seek+frame", "render", "settings", "click refused"} =>
              srvState' = srvState ]_vars

\* The response of a failed call was recorded and is still there after a frame.
C28_Witness ==
    /\ lastEvent = "frame"
    /\ srvState.status = "success"
    /\ srvState.response.success = "false"
    /\ pending = <<>>
    /\ state.latestMatchingQueriedData # Undefined

\* The evaluator state after the messages of f, each reduced as a frame of its
\* own, in order.
RECURSIVE singleFrames(_, _)
singleFrames(st, f) ==
    IF f = <<>> THEN st
    ELSE singleFrames(reducerFrame(st, <<Head(f)>>), Tail(f))

\* The message, the value and the error of two evaluator states are the same.
SameEvaluation(s, t) ==
    /\ s.latestMessage = t.latestMessage
    /\ s.latestMatchingQueriedData = t.latestMatchingQueriedData
    /\ s.error = t.error

\* C29 as stated: from every state, a frame of messages m1 .. mn leaves the
\* same latestMessage, latestMatchingQueriedData and error as n frames of one
\* message each, m1 .. mn in that order.
C29_BatchSplitting ==
    (FrameObserved /\ probe.renderState.currentFrame # <<>>) =>
        SameEvaluation(state, singleFrames(probe.before, probe.renderState.currentFrame))

\* C29 amended: the same, for the frames in which the evaluated path yields
\* several values from no message on its topic.
C29_BatchSplittingUnambiguous ==
    ( /\ FrameObserved
      /\ probe.renderState.currentFrame # <<>>
      /\ ~(Evaluates(probe.before) /\ Ambiguous(probe.renderState.currentFrame, probe.before.parsedPath)) )
    => SameEvaluation(state, singleFrames(probe.before, probe.renderState.currentFrame))

\* A frame of a matching message and a message of another topic has been
\* reduced over a held message, and the matching message is the one retained.
C29_Witness ==
    /\ FrameObserved
    /\ Len(probe.renderState.currentFrame) = 2
    /\ probe.before.latestMessage # NoMessage
    /\ probe.before.latestMessage # probe.renderState.currentFrame[1]
    /\ UniqueValue(probe.renderState.currentFrame[1], state.parsedPath) = "false"
    /\ probe.renderState.currentFrame[2].topic # state.parsedPath.topicName
    /\ state.latestMessage = probe.renderState.currentFrame[1]
    /\ state.latestMatchingQueriedData = "false"

\* C30: whenever latestMatchingQueriedData is defined, latestMessage is
\* defined and on the parsed path's topic, and the parsed path extracts exactly
\* that value from it.
C30_EvaluatorConsistent ==
    state.latestMatchingQueriedData # Undefined =>
        /\ state.latestMessage # NoMessage
        /\ state.parsedPath # NoPath
        /\ state.latestMessage.topic = state.parsedPath.topicName
        /\ simpleGetMessagePathDataItems(state.latestMessage, state.parsedPath)
               = <<state.latestMatchingQueriedData>>

\* A path edit has given a value from a message that was retained under a
\* parse error.
C30_Witness ==
    /\ lastEvent = "settings"
    /\ probe.kind = "path"
    /\ probe.before.pathParseError # Undefined
    /\ state.path = "/a.arr[:]"
    /\ state.latestMessage.arr = <<"false">>
    /\ state.latestMatchingQueriedData = "false"

\* C31 as stated: a frame that carries no message, or only messages of topics
\* other than the path's, leaves latestMessage and latestMatchingQueriedData
\* as they were, in every evaluator state, with a parse error or without.
C31_UnmatchedFrameKeepsState ==
    ( /\ FrameObserved
      /\ \A i \in DOMAIN probe.renderState.currentFrame :
            probe.renderState.currentFrame[i].topic # probe.before.parsedPath.topicName )
    => /\ state.latestMessage = probe.before.latestMessage
       /\ state.latestMatchingQueriedData = probe.before.latestMatchingQueriedData

\* The publish calls among the calls of a step, and the twist of a message.
publishes(cs) ==
    LET isPublish(call) == call.op = "publish"
    IN  SelectSeq(cs, isPublish)

twistOf(message) ==
    IF "twist" \in DOMAIN message THEN message.twist ELSE message

\* C32: when the speed reported to Joy becomes (0,0) after a non-zero speed,
\* the step publishes exactly one message, with every component 0, and leaves
\* no interval running; and while the speed stays (0,0) no step publishes.
C32_JoyHalt ==
    [][ /\ (panel = "Joy" /\ speed \notin {NoSpeed, ZeroSpeed} /\ speed' = ZeroSpeed)
           => /\ Len(publishes(hostCalls')) = 1
              /\ twistOf(publishes(hostCalls')[1].message) = ZeroTwist
              /\ timers' = <<>>
        /\ (panel = "Joy" /\ speed = ZeroSpeed /\ speed' = ZeroSpeed)
           => /\ publishes(hostCalls') = <<>>
              /\ timers' = <<>> ]_vars

\* A drag has ended after a non-zero speed: the stop was published and Joy is
\* halted with no interval.
C32_Witness ==
    /\ panel = "Joy"
    /\ lastEvent = "end"
    /\ speed = ZeroSpeed
    /\ halt
    /\ Len(publishes(hostCalls)) = 1
    \* the interval of the non-zero speed and the one of the stop were cleared
    /\ Cardinality({ i \in DOMAIN hostCalls : hostCalls[i].op = "clearInterval" }) = 2
    /\ timers = <<>>

\* C33: Joy and Teleop hold at most one interval at any time: at every point
\* of the calls of a step at most one interval runs, so a new one is started
\* only after the previous one was cleared; and none runs after the unmount or
\* after the release of the directional action.
C33_AtMostOneTimer ==
    [][ /\ \A k \in 0..Len(hostCalls') :
              Len(timersAfter(timers, SubSeq(hostCalls', 1, k))) <= 1
        /\ Len(timers') <= 1
        /\ lastEvent' \in {"unmount", "release"} => timers' = <<>> ]_vars

\* A step has replaced a running interval: it cleared one and then set one.
C33_Witness ==
    /\ lastEvent \in {"settings", "move", "action"}
    /\ Len(timers) = 1
    /\ \E i, j \in DOMAIN hostCalls :
          /\ i < j
          /\ hostCalls[i].op = "clearInterval"
          /\ hostCalls[j].op = "setInterval"

\* C34: Joy and Teleop publish nothing while no topic is configured, while
\* publishRate is zero or negative, or before a speed (Joy) or a directional
\* action (Teleop) has been received: a step that publishes ends with a topic,
\* a positive rate and an input.
C34_NoPublishWithoutTopicRateInput ==
    publishes(hostCalls) # <<>>
    => /\ Truthy(config.topic)
       /\ toNumber(config.publishRate) > 0
       /\ panel = "Joy" => speed # NoSpeed
       /\ panel = "Teleop" => currentAction # Undefined

\* A change of the settings made Joy publish again, after the topic or the
\* rate had switched publishing off and JoyVisual had been rendered anew.
C34_Witness ==
    /\ panel = "Joy"
    /\ lastEvent = "settings"
    /\ publishes(hostCalls) # <<>>
    /\ joyVisual.mounted
    /\ joyVisual.speed = NoSpeed
    /\ speed # NoSpeed

\* The type whose shape a message has: header plus twist, or a bare twist.
shapeOf(message) ==
    IF DOMAIN message = {"header", "twist"} THEN TwistStampedType
    ELSE IF DOMAIN message = {"linear", "angular"} THEN TwistType
    ELSE Undefined

\* Every publish among the calls goes to a topic advertised at that point,
\* with the shape of the type it is advertised with.
RECURSIVE publishesAdvertised(_, _)
publishesAdvertised(adv, cs) ==
    IF cs = <<>> THEN TRUE
    ELSE /\ Head(cs).op = "publish"
            => [topic |-> Head(cs).topic, type |-> shapeOf(Head(cs).message)] \in adv
         /\ publishesAdvertised(advertisedAfter(adv, <<Head(cs)>>), Tail(cs))

\* C35: every message Joy or Teleop publishes goes to the topic advertised at
\* that moment and has the shape of the type advertised for it, which is
\* header plus twist exactly when config.stamped is true.
C35_PublishMatchesAdvertised ==
    [][ /\ publishesAdvertised(advertised, hostCalls')
        /\ \A i \in DOMAIN hostCalls' :
              hostCalls'[i].op = "publish"
              => /\ hostCalls'[i].topic = config'.topic
                 /\ shapeOf(hostCalls'[i].message) =
                       (IF Truthy(config'.stamped) THEN TwistStampedType ELSE TwistType) ]_vars

\* A change of the stamped flag during publishing: the topic was advertised
\* anew as TwistStamped and the message published after it has a header.
C35_Witness ==
    /\ lastEvent = "settings"
    /\ Truthy(config.stamped)
    /\ \E i, j, k \in DOMAIN hostCalls :
          /\ i < j /\ j < k
          /\ hostCalls[i].op = "unadvertise"
          /\ hostCalls[j].op = "advertise" /\ hostCalls[j].type = TwistStampedType
          /\ hostCalls[k].op = "publish" /\ shapeOf(hostCalls[k].message) = TwistStampedType

\* C36: advertise and unadvertise are balanced in Joy and Teleop: at every
\* point of the calls of a step at most one topic is advertised; an advertise
\* is made only when nothing is advertised, the previous topic having been
\* unadvertised first; nothing is advertised while the topic is empty, and
\* nothing after the unmount.
C36_AdvertiseBalanced ==
    [][ /\ \A k \in 0..Len(hostCalls') :
              Cardinality(advertisedAfter(advertised, SubSeq(hostCalls', 1, k))) <= 1
        /\ \A k \in DOMAIN hostCalls' :
              hostCalls'[k].op = "advertise"
              => advertisedAfter(advertised, SubSeq(hostCalls', 1, k - 1)) = {}
        /\ ~Truthy(config'.topic) => advertised' = {}
        /\ lastEvent' = "unmount" => advertised' = {} ]_vars

\* The topic was changed: the old one was unadvertised, then the new one
\* advertised, and it is the only one.
C36_Witness ==
    /\ lastEvent = "settings"
    /\ advertised = {[topic |-> "/cmd2", type |-> TwistType]}
    /\ \E i, j \in DOMAIN hostCalls :
          /\ i < j
          /\ hostCalls[i] = UnadvertiseCall("/cmd_vel")
          /\ hostCalls[j] = AdvertiseCall("/cmd2", TwistType)

\* C37: every message Teleop publishes while a directional action is active
\* has the twist component named by the field configured for that action set
\* to the value configured for it, and every other linear and angular
\* component 0.
C37_TeleopMessageContent ==
    (panel = "Teleop" /\ currentAction \in DirectionalPadActions)
    => \A i \in DOMAIN hostCalls :
          hostCalls[i].op = "publish"
          => \A category \in {"linear", "angular"}, direction \in {"x", "y", "z"} :
                twistOf(hostCalls[i].message)[category][direction] =
                   (IF split(buttonOf(config, currentAction).field) = <<category, direction>>
                    THEN buttonOf(config, currentAction).value
                    ELSE "0")

\* An interval publishes for LEFT after its field was set to linear-y.
C37_Witness ==
    /\ panel = "Teleop"
    /\ lastEvent = "timer"
    /\ currentAction = "LEFT"
    /\ config.leftButton.field = "linear-y"
    /\ publishes(hostCalls) # <<>>
    /\ twistOf(publishes(hostCalls)[1].message).linear.y = config.leftButton.value

\* C38: JoyVisual's drag.  A start with the left mouse button or a touch
\* starts dragging and a start with another button does not; a move reports
\* a speed when dragging and reports and changes nothing otherwise; an end
\* stops dragging and, when it ends a drag, reports (0,0); and no other event
\* starts a drag.
C38_DragStateMachine ==
    [][ /\ lastEvent' \in {"mousedown left", "touchstart"} => joyVisual'.isDragging
        /\ lastEvent' = "mousedown other"
           => /\ joyVisual'.isDragging = joyVisual.isDragging
              /\ speed' = speed
        /\ lastEvent' = "move"
           => /\ joyVisual'.isDragging = joyVisual.isDragging
              /\ IF joyVisual.isDragging
                 THEN speed' # NoSpeed /\ speed' = joyVisual'.speed
                 ELSE speed' = speed /\ joyVisual' = joyVisual /\ hostCalls' = <<>>
        /\ lastEvent' = "end"
           => /\ ~joyVisual'.isDragging
              /\ joyVisual.isDragging => (speed' = ZeroSpeed /\ joyVisual'.speed = ZeroSpeed)
        /\ lastEvent' \in {"settings", "timer", "render", "unmount"}
           => (joyVisual'.isDragging => joyVisual.isDragging) ]_vars

\* A move after the release: the end of the drag had reported (0,0) and
\* halted Joy, and the move reported nothing.
C38_Witness ==
    /\ lastEvent = "move"
    /\ joyVisual.mounted
    /\ ~joyVisual.isDragging
    /\ joyVisual.speed = ZeroSpeed
    /\ speed = ZeroSpeed
    /\ halt
    /\ hostCalls = <<>>

\* C39: an update action sets the config field its path addresses, without
\* the first segment, to the value and leaves every other field as it was; an
\* action that is no update leaves the config as it was; and the config
\* object the handler was given is not changed by the call.
C39_SettingsUpdate ==
    probe.kind = "settings"
    => LET action == probe.action
           path == SubSeq(action.payload.path, 2, Len(action.payload.path))
       IN  /\ IF action.action = "update"
              THEN \A f \in DOMAIN config :
                      IF f # path[1] THEN config[f] = probe.before[f]
                      ELSE IF Len(path) = 1 THEN config[f] = action.payload.value
                      ELSE \A g \in DOMAIN config[f] :
                              config[f][g] = IF g = path[2] THEN action.payload.value
                                             ELSE probe.before[f][g]
              ELSE config = probe.before
           /\ probe.previous = probe.before

=============================================================================
